---- MODULE Spec2Model ----
(***************************************************************************)
(* A model of the weather core of MLBWeather (src/weather_api.py,          *)
(* src/stadium_coords.py): the weather-sample selector, the park-relative  *)
(* wind resolver and the home-run carry calculator.                        *)
(*                                                                         *)
(* Conventions of the model                                                *)
(*   - instants are integers counted in half hours (UnitsPerHour = 2);     *)
(*   - bearings and angles are integers counted in half degrees, so that   *)
(*     the 22.5-degree sector boundaries are the exact integers 45, 135,.. *)
(*   - distances (feet) and pressures (inHg) are fixed-point integers,     *)
(*     Scale = 10^7 units to the foot and to the inHg; reported pressures  *)
(*     are counted in 1/100 hPa. Every constant of the calculator is exact *)
(*     in these units for whole-degree temperatures, whole-percent         *)
(*     humidities and whole-mph winds. The totals are the exact decimal    *)
(*     values; the program's binary floating point differs from them by    *)
(*     less than 10^-12 ft, which shows only where a total lies exactly on *)
(*     a rounding tie or on a threshold of the description ladder. The     *)
(*     station pressure of the parks above 500 ft is exact to 10^-4 inHg;  *)
(*   - Python's None / missing key is the empty tuple <<>> for optional    *)
(*     numbers, the record EmptyDict for an absent sample and the record   *)
(*     NoneRecord for an absent parsed record.                             *)
(***************************************************************************)
EXTENDS Integers, Sequences, FiniteSets, TLC

VARIABLES
    pc,             \* position of the evaluation in progress
    clock,          \* the system clock read by datetime.now (half hours)
    data,           \* the One Call payload: current, hourly
    game_datetime,  \* the game's scheduled start as handed to the fetcher
    game_status,    \* the game's detailedState
    stadium_name,   \* the stadium display name ("" models None)
    wind_deg,       \* wind-from bearing handed to the resolver (<<>> = None)
    selected,       \* the sample _get_appropriate_weather_data returned
    wind_label,     \* the label _get_wind_direction_for_stadium returned
    shifted_label,  \* the label returned for the shifted bearing/orientation
    shift,          \* the shifts applied for shifted_label: [d, j, k]
    weather_data,   \* the parsed weather record (calculator input)
    hr_factor,      \* the record _calculate_home_run_factor returned
    varied,         \* a second record, weather_data with one field changed
    hr_factor_varied, \* the record _calculate_home_run_factor returned for it
    weather_str,    \* the line a formatter returned
    selected_later, \* the sample a second call of the selector returned
    coordinates,    \* the (lat, lon) handed to the fetch (<<>> = None)
    api_key,        \* the OpenWeather API key (<<>> = None)
    response,       \* what requests.get does for the fetch's request
    fetched,        \* what get_weather_for_game returned, or the exception raised
    requests_made,  \* the number of requests.get calls of the fetch
    scheduled_weather_cache, \* st.session_state.scheduled_weather_cache.get(game_pk)
    final_weather_cache,     \* st.session_state.final_weather_cache.get(game_pk)
    cache_data,     \* the st.cache_data entries of the three weather wrappers
    renders         \* the page renders so far: what each get_games_data call
                    \* was given, called and returned for the game

\* the variables of the fetch and of the page session
fetch_vars == << coordinates, api_key, response, fetched, requests_made >>
session_vars == << scheduled_weather_cache, final_weather_cache, cache_data, renders >>

vars == << weather_str, selected_later, fetch_vars, session_vars,
           pc, clock, data, game_datetime, game_status, stadium_name, wind_deg,
           selected, wind_label, shifted_label, shift, weather_data, hr_factor,
           varied, hr_factor_varied >>

-----------------------------------------------------------------------------
(* Bounds of the model *)

\* longest hourly series drawn (the API sends 48 entries)
MaxHourly == 3
\* number of half hours the clock may advance during one evaluation
MaxClock == 1
\* full turns added to a bearing or an orientation: -MaxTurns .. MaxTurns
MaxTurns == 2

\* the half hours that may pass between two calls of the selector
MaxElapsed == 2

\* the renders of the page in one session
MaxRenders == 3

-----------------------------------------------------------------------------
(* Python values *)

\* data.get('current', {}) of a payload without a current sample: falsy
EmptyDict == [absent |-> TRUE]
\* a function's None result where a record is expected
NoneRecord == [none |-> TRUE]
\* None for an optional number
None == << >>
Some(x) == << x >>
\* None or "" for a stadium name: `not stadium_name` (line 172) treats both alike
NoStadium == ""

Abs(x) == IF x < 0 THEN 0 - x ELSE x

\* instants are counted in half hours
UnitsPerHour == 2

-----------------------------------------------------------------------------
(* Weather-sample selector: WeatherFetcher._get_appropriate_weather_data *)

NoDatetime == [kind |-> "none"]
MalformedDatetime == [kind |-> "malformed"]
IsoDatetime(t) == [kind |-> "iso", t |-> t]

\* the status test with the finished states left out
CurrentStatusesLiveOnly == {"In Progress", "Live"}

CurrentStatuses == {"In Progress", "Live", "Final", "Game Over"}

\* the scan with <= for <: of equally near samples the last one wins
RECURSIVE ScanHourlyLastWins(_, _, _, _, _)
ScanHourlyLastWins(hourly_data, game_dt, i, best_forecast, min_time_diff) ==
    IF i > Len(hourly_data) THEN best_forecast
    ELSE LET hour_data == hourly_data[i]
             time_diff == Abs(hour_data.dt - game_dt)
         IN  IF best_forecast = None \/ time_diff <= min_time_diff
             THEN ScanHourlyLastWins(hourly_data, game_dt, i + 1, Some(hour_data), time_diff)
             ELSE ScanHourlyLastWins(hourly_data, game_dt, i + 1, best_forecast,
                                     min_time_diff)

\* lines 147-153: the scan of the hourly series; best_forecast is None (<<>>)
\* exactly while min_time_diff is still float('inf')
RECURSIVE ScanHourly(_, _, _, _, _)
ScanHourly(hourly_data, game_dt, i, best_forecast, min_time_diff) ==
    IF i > Len(hourly_data) THEN best_forecast
    ELSE LET hour_data == hourly_data[i]
             time_diff == Abs(hour_data.dt - game_dt)
         IN  IF best_forecast = None \/ time_diff < min_time_diff
             THEN ScanHourly(hourly_data, game_dt, i + 1, Some(hour_data), time_diff)
             ELSE ScanHourly(hourly_data, game_dt, i + 1, best_forecast, min_time_diff)

\* the horizon test left out: any future start is matched to the series
WithinForecastHorizonAlways(game_dt, current_dt) == TRUE

\* line 141: hours_until_game <= 48, with the gap counted in half hours
WithinForecastHorizon(game_dt, current_dt) ==
    (game_dt - current_dt) <= 48 * UnitsPerHour

\* the selector without the fallback of line 159: no forecast, no sample
get_appropriate_weather_data_no_fallback(d, gdt, status, current_dt) ==
    IF gdt.kind = "malformed" THEN d.current
    ELSE IF status \in CurrentStatuses THEN d.current
    ELSE IF gdt.kind = "iso" /\ gdt.t > current_dt
    THEN IF WithinForecastHorizon(gdt.t, current_dt) /\ d.has_hourly
         THEN LET best_forecast == ScanHourly(d.hourly, gdt.t, 1, None, 0)
              IN  IF best_forecast # None THEN best_forecast[1] ELSE EmptyDict
         ELSE EmptyDict
    ELSE d.current

get_appropriate_weather_data(d, gdt, status, current_dt) ==
    IF gdt.kind = "malformed"
    THEN d.current          \* fromisoformat raises; lines 164-166
    ELSE IF status \in CurrentStatuses
    THEN d.current          \* line 136
    ELSE IF gdt.kind = "iso" /\ gdt.t > current_dt
    THEN IF WithinForecastHorizon(gdt.t, current_dt) /\ d.has_hourly
         THEN LET best_forecast == ScanHourly(d.hourly, gdt.t, 1, None, 0)
              IN  IF best_forecast # None THEN best_forecast[1] ELSE d.current
         ELSE d.current     \* line 159
    ELSE d.current          \* line 162

-----------------------------------------------------------------------------
(* Ballpark geometry: src/stadium_coords.py *)

\* STADIUM_ORIENTATIONS: bearing from home plate to center field, in degrees
STADIUM_ORIENTATIONS ==
    ("Fenway Park" :> 65) @@ ("Yankee Stadium" :> 95) @@ ("Tropicana Field" :> 90) @@
    ("Rogers Centre" :> 90) @@ ("Oriole Park at Camden Yards" :> 70) @@
    ("Progressive Field" :> 80) @@ ("Comerica Park" :> 85) @@
    ("Guaranteed Rate Field" :> 90) @@ ("Kauffman Stadium" :> 90) @@
    ("Target Field" :> 105) @@ ("Minute Maid Park" :> 105) @@ ("Angel Stadium" :> 90) @@
    ("Oakland Coliseum" :> 90) @@ ("T-Mobile Park" :> 90) @@ ("Globe Life Field" :> 90) @@
    ("Truist Park" :> 90) @@ ("loanDepot park" :> 90) @@ ("Citi Field" :> 90) @@
    ("Citizens Bank Park" :> 90) @@ ("Nationals Park" :> 90) @@ ("Wrigley Field" :> 90) @@
    ("Great American Ball Park" :> 90) @@ ("American Family Field" :> 90) @@
    ("PNC Park" :> 85) @@ ("Busch Stadium" :> 90) @@ ("Chase Field" :> 90) @@
    ("Coors Field" :> 90) @@ ("Dodger Stadium" :> 90) @@ ("Petco Park" :> 90) @@
    ("Oracle Park" :> 225)

\* STADIUM_ORIENTATIONS.get(stadium_name): None when the name is not a key
get_stadium_orientation(name) ==
    IF name \in DOMAIN STADIUM_ORIENTATIONS THEN Some(STADIUM_ORIENTATIONS[name]) ELSE None

-----------------------------------------------------------------------------
(* Wind direction resolver: WeatherFetcher._get_wind_direction_for_stadium *)

\* angles are counted in half degrees
HalfDegrees(deg) == 2 * deg

Directions == << "N", "NNE", "NE", "ENE", "E", "ESE", "SE", "SSE",
                 "S", "SSW", "SW", "WSW", "W", "WNW", "NW", "NNW" >>

\* "from <point>": round(degrees / 22.5) % 16; with degrees a whole number of
\* half degrees the quotient is never halfway, so round is floor(q + 1/2)
degrees_to_cardinal(degrees) ==
    LET index == ((2 * degrees + 45) \div 90) % 16
    IN  "from " \o Directions[index + 1]

\* the remainder truncated toward zero, as C's fmod and % are
RelativeAngleTruncated(wind, stadium_bearing) ==
    LET x == wind - stadium_bearing + HalfDegrees(360)
    IN  IF x >= 0 THEN x % HalfDegrees(360) ELSE 0 - ((0 - x) % HalfDegrees(360))

\* line 185: Python's % takes the sign of the divisor, as TLA+'s does
RelativeAngle(wind, stadium_bearing) ==
    (wind - stadium_bearing + HalfDegrees(360)) % HalfDegrees(360)

\* the sector tests with the upper boundaries closed and the lower ones open
SectorLabelClosed(relative_angle, wind) ==
    IF 675 < relative_angle \/ relative_angle <= 45 THEN "out to center field"
    ELSE IF 45 < relative_angle /\ relative_angle <= 135 THEN "out to right field"
    ELSE IF 135 < relative_angle /\ relative_angle <= 225
         THEN "out to right field foul territory"
    ELSE IF 225 < relative_angle /\ relative_angle <= 315 THEN "in from right field"
    ELSE IF 315 < relative_angle /\ relative_angle <= 405 THEN "in from center field"
    ELSE IF 405 < relative_angle /\ relative_angle <= 495 THEN "in from left field"
    ELSE IF 495 < relative_angle /\ relative_angle <= 585
         THEN "out to left field foul territory"
    ELSE IF 585 < relative_angle /\ relative_angle <= 675 THEN "out to left field"
    ELSE degrees_to_cardinal(wind)

\* lines 188-205: the chain of sector tests on relative_angle (half degrees:
\* 22.5 is 45, 67.5 is 135, ..., 337.5 is 675)
SectorLabel(relative_angle, wind) ==
    IF 675 <= relative_angle \/ relative_angle < 45 THEN "out to center field"
    ELSE IF 45 <= relative_angle /\ relative_angle < 135 THEN "out to right field"
    ELSE IF 135 <= relative_angle /\ relative_angle < 225
         THEN "out to right field foul territory"
    ELSE IF 225 <= relative_angle /\ relative_angle < 315 THEN "in from right field"
    ELSE IF 315 <= relative_angle /\ relative_angle < 405 THEN "in from center field"
    ELSE IF 405 <= relative_angle /\ relative_angle < 495 THEN "in from left field"
    ELSE IF 495 <= relative_angle /\ relative_angle < 585
         THEN "out to left field foul territory"
    ELSE IF 585 <= relative_angle /\ relative_angle < 675 THEN "out to left field"
    ELSE degrees_to_cardinal(wind)

\* lines 183-205 as a function of the bearing and the orientation in use
relative_wind_label(wind, stadium_bearing) ==
    SectorLabel(RelativeAngle(wind, stadium_bearing), wind)

\* the default orientation north (0) instead of east (90)
StadiumBearingNorth(name) ==
    LET stadium_bearing == get_stadium_orientation(name)
    IN  IF stadium_bearing = None THEN HalfDegrees(0) ELSE HalfDegrees(stadium_bearing[1])

\* lines 179-181: the orientation in use, 90 when the table has none
StadiumBearing(name) ==
    LET stadium_bearing == get_stadium_orientation(name)
    IN  IF stadium_bearing = None THEN HalfDegrees(90) ELSE HalfDegrees(stadium_bearing[1])

\* the guard of line 172 without `wind_deg is None`: the subtraction of line
\* 185 then raises TypeError for a named stadium
get_wind_direction_for_stadium_unguarded(wdeg, name) ==
    IF name = NoStadium
    THEN IF wdeg # None THEN degrees_to_cardinal(wdeg[1]) ELSE "Unknown"
    ELSE IF wdeg = None THEN "TypeError"
    ELSE relative_wind_label(wdeg[1], StadiumBearing(name))

get_wind_direction_for_stadium(wdeg, name) ==
    IF name = NoStadium \/ wdeg = None
    THEN IF wdeg # None THEN degrees_to_cardinal(wdeg[1]) ELSE "Unknown"
    ELSE relative_wind_label(wdeg[1], StadiumBearing(name))

-----------------------------------------------------------------------------
(* Carry calculator: WeatherFetcher._calculate_home_run_factor *)

\* feet and inHg are fixed-point integers: Scale units make one foot / one inHg
Scale == 10000000

STANDARD_TEMP == 70
\* 29.92 inHg
STANDARD_PRESSURE_SL == 299200000
STANDARD_HUMIDITY == 50

\* Python's round(x, n): to the nearest multiple of q, a tie to the even one
RoundTo(x, q) ==
    LET lo == (x \div q) * q
        r  == x - lo
    IN  IF 2 * r < q THEN lo
        ELSE IF 2 * r > q THEN lo + q
        ELSE IF (lo \div q) % 2 = 0 THEN lo ELSE lo + q

\* round(x, 1) and round(x, 2) of a fixed-point number
Round1(x) == RoundTo(x, Scale \div 10)
Round2(x) == RoundTo(x, Scale \div 100)

\* lines 231-241: stadium_elevations.get(stadium_name, 0), in feet
stadium_elevations ==
    ("Coors Field" :> 5200) @@ ("Chase Field" :> 1100) @@ ("Kauffman Stadium" :> 750) @@
    ("Globe Life Field" :> 550) @@ ("Minute Maid Park" :> 50) @@ ("Tropicana Field" :> 10)

Elevation(name) ==
    IF name \in DOMAIN stadium_elevations THEN stadium_elevations[name] ELSE 0

\* line 259: 29.92 * (1 - 0.0000068756 * elevation) ** 5.2559 for the four
\* elevations above 500 ft of the table, in 1/10000 inHg
StandardAtmospherePressure(elevation) ==
    CASE elevation = 5200 -> 247091
      [] elevation = 1100 -> 287496
      [] elevation = 750  -> 291179
      [] elevation = 550  -> 293301

\* line 262 and the divisor of line 263: standard_temp_at_elevation + 459.67,
\* in 1/100 degree, to the nearest 1/100
StandardAbsoluteTemp(elevation) == 51867 - ((elevation * 356 + 500) \div 1000)

\* lines 257-270: the station pressure in Scale units. Above 500 ft the
\* product is taken in 1/10000 inHg (P + P * (N - D) / D for P * N / D).
StationPressure(elevation, temp_f, pressure_hpa) ==
    IF elevation > 500
    THEN LET p == StandardAtmospherePressure(elevation)
             d == StandardAbsoluteTemp(elevation)
             n == 100 * temp_f + 45967
         IN  (p + ((p * (n - d)) \div d)) * (Scale \div 10000)
    ELSE IF pressure_hpa # None /\ pressure_hpa[1] # 0
         THEN pressure_hpa[1] * 2953      \* hPa/100 * 0.02953 inHg
         ELSE STANDARD_PRESSURE_SL

\* the phrases _calculate_wind_vector_effect probes for that occur in
\* wind_direction_text.lower(); the compass labels, "Unknown" and "" hold none
PhrasesIn(text) ==
    CASE text = "out to center field" -> {"out to center"}
      [] text = "out to right field" -> {"out to right"}
      [] text = "out to right field foul territory" -> {"out to right", "foul territory"}
      [] text = "in from right field" -> {"in from right"}
      [] text = "in from center field" -> {"in from center"}
      [] text = "in from left field" -> {"in from left"}
      [] text = "out to left field foul territory" -> {"out to left", "foul territory"}
      [] text = "out to left field" -> {"out to left"}
      [] OTHER -> {}

\* head winds weighted like the tail winds: -2.0 in from center field, -1.5 in
\* from left or right field
DirectionalEffectSymmetric(wind_speed, text) ==
    IF "out to center" \in PhrasesIn(text) THEN wind_speed * 20 * (Scale \div 10)
    ELSE IF "in from center" \in PhrasesIn(text) THEN wind_speed * (0 - 20) * (Scale \div 10)
    ELSE IF "out to left" \in PhrasesIn(text) \/ "out to right" \in PhrasesIn(text)
         THEN wind_speed * 15 * (Scale \div 10)
    ELSE IF "in from left" \in PhrasesIn(text) \/ "in from right" \in PhrasesIn(text)
         THEN wind_speed * (0 - 15) * (Scale \div 10)
    ELSE IF "foul territory" \in PhrasesIn(text) THEN wind_speed * 25 * (Scale \div 100)
    ELSE 0

\* lines 355-371: wind_speed times the directional multiplier
DirectionalEffect(wind_speed, text) ==
    IF "out to center" \in PhrasesIn(text) THEN wind_speed * 20 * (Scale \div 10)
    ELSE IF "in from center" \in PhrasesIn(text) THEN wind_speed * (0 - 18) * (Scale \div 10)
    ELSE IF "out to left" \in PhrasesIn(text) \/ "out to right" \in PhrasesIn(text)
         THEN wind_speed * 15 * (Scale \div 10)
    ELSE IF "in from left" \in PhrasesIn(text) \/ "in from right" \in PhrasesIn(text)
         THEN wind_speed * (0 - 13) * (Scale \div 10)
    ELSE IF "foul territory" \in PhrasesIn(text) THEN wind_speed * 25 * (Scale \div 100)
    ELSE 0

\* the two speed thresholds taken inclusively: 4 mph still calm, 8 mph still
\* damped
calculate_wind_vector_effect_inclusive(wind_speed, text) ==
    IF wind_speed <= 4 THEN 0
    ELSE IF wind_speed <= 8
         THEN (DirectionalEffect(wind_speed, text) * 7) \div 10
         ELSE DirectionalEffect(wind_speed, text)

\* lines 344-377
calculate_wind_vector_effect(wind_speed, text) ==
    IF wind_speed < 4 THEN 0
    ELSE IF wind_speed < 8
         THEN (DirectionalEffect(wind_speed, text) * 7) \div 10
         ELSE DirectionalEffect(wind_speed, text)

\* the two coefficients of the humidor effect exchanged
calculate_humidor_effect_swapped(temp_f, humidity) ==
    LET temp_diff == temp_f - 70
        humidity_diff == humidity - 50
        temp_ball_effect == temp_diff * 2 * (Scale \div 100)
        humidity_ball_effect == 0 - (humidity_diff * 3 * (Scale \div 100))
    IN  temp_ball_effect + humidity_ball_effect

\* lines 379-395
calculate_humidor_effect(temp_f, humidity) ==
    LET temp_diff == temp_f - 70
        humidity_diff == humidity - 50
        temp_ball_effect == temp_diff * 3 * (Scale \div 100)
        humidity_ball_effect == 0 - (humidity_diff * 2 * (Scale \div 100))
    IN  temp_ball_effect + humidity_ball_effect

\* the temperature effect measured from the 59 F of the standard atmosphere
\* (line 261) instead of STANDARD_TEMP
TempEffectFrom59(temp_f) == (temp_f - 59) * 25 * (Scale \div 100)

\* lines 278, 294, 302: ((temp_f - STANDARD_TEMP) / 10.0) * 2.5
TempEffect(temp_f) == (temp_f - STANDARD_TEMP) * 25 * (Scale \div 100)

\* the humidity effect with its sign reversed: moist air taken to shorten the
\* carry
HumidityEffectReversed(humidity) ==
    (STANDARD_HUMIDITY - humidity) * 12 * (Scale \div 100)

\* lines 281, 295, 303: ((humidity - STANDARD_HUMIDITY) / 10.0) * 1.2
HumidityEffect(humidity) == (humidity - STANDARD_HUMIDITY) * 12 * (Scale \div 100)

\* lines 306-310: the pressure term of the generic branch
PressureEffect(pressure_hpa) ==
    IF pressure_hpa # None /\ pressure_hpa[1] # 0
    THEN (STANDARD_PRESSURE_SL - pressure_hpa[1] * 2953) * 5
    ELSE 0

\* lines 273-275, 291-293: the altitude baseline of the two named parks
AltitudeBaseline(name) ==
    IF name = "Coors Field" THEN 22 * Scale
    ELSE IF name = "Chase Field" THEN 4 * Scale
    ELSE 0

\* the pressure term of the generic branch added at every park
TotalCarryDifferencePressureEverywhere(wd, name) ==
    AltitudeBaseline(name) + TempEffect(wd.temperature)
    + HumidityEffect(wd.humidity) + PressureEffect(wd.pressure)
    + calculate_wind_vector_effect(wd.wind_speed, wd.wind_direction_text)
    + calculate_humidor_effect(wd.temperature, wd.humidity)

\* lines 273-315: total_carry_difference of the park's branch
TotalCarryDifference(wd, name) ==
    LET wind_effect == calculate_wind_vector_effect(wd.wind_speed, wd.wind_direction_text)
        humidor_effect == calculate_humidor_effect(wd.temperature, wd.humidity)
    IN  IF name \in {"Coors Field", "Chase Field"}
        THEN AltitudeBaseline(name) + TempEffect(wd.temperature)
             + HumidityEffect(wd.humidity) + wind_effect + humidor_effect
        ELSE TempEffect(wd.temperature) + HumidityEffect(wd.humidity)
             + PressureEffect(wd.pressure) + wind_effect + humidor_effect

\* the ladder with exclusive lower bounds
DescriptionExclusive(total_carry_difference) ==
    IF total_carry_difference > 20 * Scale THEN "Excellent home run conditions"
    ELSE IF total_carry_difference > 10 * Scale THEN "Good home run conditions"
    ELSE IF total_carry_difference > 4 * Scale THEN "Slightly favorable for home runs"
    ELSE IF total_carry_difference > (0 - 4) * Scale THEN "Average home run conditions"
    ELSE IF total_carry_difference > (0 - 10) * Scale
         THEN "Slightly unfavorable for home runs"
    ELSE IF total_carry_difference > (0 - 20) * Scale THEN "Poor home run conditions"
    ELSE "Very poor home run conditions"

\* lines 317-331
Description(total_carry_difference) ==
    IF total_carry_difference >= 20 * Scale THEN "Excellent home run conditions"
    ELSE IF total_carry_difference >= 10 * Scale THEN "Good home run conditions"
    ELSE IF total_carry_difference >= 4 * Scale THEN "Slightly favorable for home runs"
    ELSE IF total_carry_difference >= (0 - 4) * Scale THEN "Average home run conditions"
    ELSE IF total_carry_difference >= (0 - 10) * Scale
         THEN "Slightly unfavorable for home runs"
    ELSE IF total_carry_difference >= (0 - 20) * Scale THEN "Poor home run conditions"
    ELSE "Very poor home run conditions"

\* lines 217-342
calculate_home_run_factor(wd, name) ==
    IF wd = NoneRecord THEN NoneRecord
    ELSE LET total_carry_difference == TotalCarryDifference(wd, name)
         IN  [ carry_difference  |-> Round1(total_carry_difference),
               description       |-> Description(total_carry_difference),
               temp_effect       |-> Round1(TempEffect(wd.temperature)),
               humidity_effect   |-> Round1(HumidityEffect(wd.humidity)),
               wind_effect       |-> Round1(calculate_wind_vector_effect(
                                        wd.wind_speed, wd.wind_direction_text)),
               humidor_effect    |-> Round1(calculate_humidor_effect(
                                        wd.temperature, wd.humidity)),
               altitude_baseline |-> Round1(AltitudeBaseline(name)),
               station_pressure  |-> Round2(StationPressure(
                                        Elevation(name), wd.temperature, wd.pressure)) ]

-----------------------------------------------------------------------------
(* Parsing of the payload: WeatherFetcher._parse_onecall_data *)

\* Python's round(x) of a number given in tenths: to the nearest integer, a tie
\* to the even one
PyRound(tenths) == RoundTo(tenths, 10) \div 10

\* lines 71-114, the fields the resolver and the calculator read. The raw
\* sample holds temp and wind_speed in tenths, wind_deg in half degrees and
\* pressure in 1/100 hPa.
parse_onecall_data(d, gdt, name, status, current_dt) ==
    LET sample == get_appropriate_weather_data(d, gdt, status, current_dt)
    IN  IF sample = EmptyDict THEN NoneRecord
        ELSE [ temperature         |-> PyRound(sample.temp),
               humidity            |-> sample.humidity,
               wind_speed          |-> PyRound(sample.wind_speed),
               wind_direction      |-> sample.wind_deg,
               wind_direction_text |->
                   get_wind_direction_for_stadium(Some(sample.wind_deg), name),
               pressure            |-> sample.pressure ]

-----------------------------------------------------------------------------
(* The fetch: WeatherFetcher.get_weather_for_game. A response is what
   requests.get does for the one request: it raises, or it returns a status
   code and a body that response.json() decodes or not. The result of a call
   is the value returned or the exception that leaves it. *)

Returns(v) == [returns |-> v]
Raises(e) == [raises |-> e]

\* the exception that has left a call
Raised(e) == [raised |-> e]

\* the subclasses of requests.RequestException the fetch can meet
RequestExceptions ==
    { "requests.ConnectionError", "requests.Timeout", "requests.HTTPError",
      "requests.JSONDecodeError" }

\* json.JSONDecodeError and its subclass in requests
JsonDecodeErrors == { "json.JSONDecodeError", "requests.JSONDecodeError" }

\* a body that decodes to something _parse_onecall_data cannot read
MalformedPayload == [malformed |-> TRUE]

\* lines 66-118: _parse_onecall_data with its except clause, which turns every
\* exception of the parsing into None
parse_onecall_data_or_none(d, gdt, name, status, current_dt) ==
    IF d = MalformedPayload THEN NoneRecord
    ELSE parse_onecall_data(d, gdt, name, status, current_dt)

\* lines 34-57: the body of the try statement
FetchBody(resp, gdt, name, status, current_dt) ==
    IF resp.kind = "raises" THEN Raises(resp.exception)                  \* line 44
    ELSE IF resp.status_code = 401 THEN Returns(NoneRecord)              \* line 49
    ELSE IF resp.status_code = 429 THEN Returns(NoneRecord)              \* line 52
    ELSE IF resp.status_code >= 400 THEN Raises("requests.HTTPError")    \* line 54
    ELSE IF ~resp.body.decodable THEN Raises(resp.body.error)            \* line 55
    ELSE Returns(parse_onecall_data_or_none(resp.body.data, gdt, name, status,
                                            current_dt))                 \* line 57

\* the except clauses answer RequestException only
CaughtByFetchRequestsOnly(e) == e \in RequestExceptions

\* lines 59-64: the exceptions the two except clauses answer
CaughtByFetch(e) == e \in RequestExceptions \/ e \in JsonDecodeErrors

\* the request made before the arguments are looked at
RequestsOfUnguarded(coords, key) == 1

\* line 28: a request is made only with coordinates and a key
RequestsOf(coords, key) == IF coords = None \/ key = None THEN 0 ELSE 1

\* lines 15-64
get_weather_for_game(coords, key, resp, gdt, name, status, current_dt) ==
    IF coords = None \/ key = None THEN NoneRecord
    ELSE LET body == FetchBody(resp, gdt, name, status, current_dt)
         IN  IF "raises" \in DOMAIN body
             THEN IF CaughtByFetch(body.raises) THEN NoneRecord
                  ELSE Raised(body.raises)
             ELSE body.returns

(* The formatters: WeatherFetcher.format_weather_string and
   format_weather_string_with_stadium. The record they read holds, beside the
   calculator's fields, feels_like, description (the condition text),
   precipitation_chance, dew_point and uv_index; temperatures, percentages,
   wind speed and UV index are whole numbers, dew_point and uv_index are
   optional. *)

\* str.join of ", " over a list of clauses
Join(parts) ==
    LET RECURSIVE JoinFrom(_)
        JoinFrom(i) ==
            IF i > Len(parts) THEN ""
            ELSE IF i = Len(parts) THEN parts[i]
            ELSE parts[i] \o ", " \o JoinFrom(i + 1)
    IN  JoinFrom(1)

\* two decimal digits of a number below 100
TwoDigits(n) == IF n < 10 THEN "0" \o ToString(n) ELSE ToString(n)

\* f"{x:.2f}" of a non-negative x
FormatFixed2(x) ==
    LET hundredths == Round2(x) \div (Scale \div 100)
    IN  ToString(hundredths \div 100) \o "." \o TwoDigits(hundredths % 100)

\* f"{x}" of a float x = round(.., 1): the sign, the whole part, one decimal
FormatRounded1(x) ==
    LET tenths == x \div (Scale \div 10)
    IN  (IF tenths < 0 THEN "-" ELSE "")
        \o ToString(Abs(tenths) \div 10) \o "." \o ToString(Abs(tenths) % 10)

\* f"{x}" of a non-negative float x = round(.., 2): the shortest decimal, with
\* at least one digit after the point
FormatRounded2(x) ==
    LET hundredths == x \div (Scale \div 100)
    IN  ToString(hundredths \div 100) \o "."
        \o (IF hundredths % 10 = 0 THEN ToString((hundredths % 100) \div 10)
            ELSE TwoDigits(hundredths % 100))

\* the feels-like temperature shown from a difference of 3 F on
TemperatureClauseFromThree(temp, feels_like) ==
    IF Abs(temp - feels_like) >= 3
    THEN ToString(temp) \o "°F (feels " \o ToString(feels_like) \o "°F)"
    ELSE ToString(temp) \o "°F"

\* lines 434-438
TemperatureClause(temp, feels_like) ==
    IF Abs(temp - feels_like) > 3
    THEN ToString(temp) \o "°F (feels " \o ToString(feels_like) \o "°F)"
    ELSE ToString(temp) \o "°F"

\* lines 443-445
PrecipitationClauses(precip) ==
    IF precip > 0 THEN << ToString(precip) \o "% rain" >> ELSE << >>

\* lines 447-462
HumidityClause(humidity, dew_point) ==
    IF dew_point # None /\ dew_point[1] # 0
    THEN LET d == dew_point[1]
             comfort == IF d >= 70 THEN "oppressive"
                        ELSE IF d >= 65 THEN "uncomfortable"
                        ELSE IF d >= 60 THEN "sticky"
                        ELSE IF d >= 55 THEN "comfortable"
                        ELSE "dry"
         IN  ToString(humidity) \o "% humidity (" \o comfort \o ", dew point "
             \o ToString(d) \o "°F)"
    ELSE ToString(humidity) \o "% humidity"

\* lines 464-473
WindClause(wind, wind_dir) ==
    LET wind_impact ==
            IF wind >= 15 THEN " (strong, affects fly balls significantly)"
            ELSE IF wind >= 10 THEN " (moderate, noticeable effect on ball flight)"
            ELSE IF wind >= 5 THEN " (light breeze)"
            ELSE " (calm)"
    IN  ToString(wind) \o " mph winds " \o wind_dir \o wind_impact

\* lines 475-487
PressureClauses(pressure) ==
    IF pressure # None /\ pressure[1] # 0
    THEN LET pressure_inhg == pressure[1] * 2953
         IN  IF pressure_inhg > 302000000
             THEN << FormatFixed2(pressure_inhg)
                     \o " inHg (high pressure, less ball carry)" >>
             ELSE IF pressure_inhg < 298000000
             THEN << FormatFixed2(pressure_inhg)
                     \o " inHg (low pressure, more ball carry)" >>
             ELSE << FormatFixed2(pressure_inhg) \o " inHg" >>
    ELSE << >>

\* lines 491-500
UvClauses(uv_index) ==
    IF uv_index # None /\ uv_index[1] # 0 /\ uv_index[1] >= 6
    THEN LET u == uv_index[1]
         IN  IF u >= 11 THEN << "UV index " \o ToString(u) \o " (extreme)" >>
             ELSE IF u >= 8 THEN << "UV index " \o ToString(u) \o " (very high)" >>
             ELSE << "UV index " \o ToString(u) \o " (high)" >>
    ELSE << >>

\* lines 432-500: weather_parts
weather_parts(wd) ==
    << TemperatureClause(wd.temperature, wd.feels_like), wd.description >>
    \o PrecipitationClauses(wd.precipitation_chance)
    \o << HumidityClause(wd.humidity, wd.dew_point),
          WindClause(wd.wind_speed, wd.wind_direction_text) >>
    \o PressureClauses(wd.pressure)
    \o UvClauses(wd.uv_index)

\* lines 415-502
format_weather_string(wd) ==
    IF wd = NoneRecord THEN "Weather data unavailable"
    ELSE Join(weather_parts(wd))

\* str.lower of a description of the ladder
Lower(description) ==
    CASE description = "Excellent home run conditions" -> "excellent home run conditions"
      [] description = "Good home run conditions" -> "good home run conditions"
      [] description = "Slightly favorable for home runs"
            -> "slightly favorable for home runs"
      [] description = "Average home run conditions" -> "average home run conditions"
      [] description = "Slightly unfavorable for home runs"
            -> "slightly unfavorable for home runs"
      [] description = "Poor home run conditions" -> "poor home run conditions"
      [] description = "Very poor home run conditions" -> "very poor home run conditions"

\* lines 517-523: hr_desc before the station pressure is appended
CarryClause(factor) ==
    IF factor.carry_difference > 0
    THEN "Home runs carry +" \o FormatRounded1(factor.carry_difference) \o " ft ("
         \o Lower(factor.description) \o ")"
    ELSE IF factor.carry_difference < 0
    THEN "Home runs carry " \o FormatRounded1(factor.carry_difference) \o " ft ("
         \o Lower(factor.description) \o ")"
    ELSE "Average home run conditions"

\* the station pressure shown for every park above 500 ft
StationPressureSuffixAbove500(factor, name) ==
    IF Elevation(name) > 500 /\ factor.station_pressure # 0
    THEN " (station pressure: " \o FormatRounded2(factor.station_pressure) \o " inHg)"
    ELSE ""

\* lines 525-528
StationPressureSuffix(factor, name) ==
    IF name \in {"Coors Field", "Chase Field"} /\ factor.station_pressure # 0
    THEN " (station pressure: " \o FormatRounded2(factor.station_pressure) \o " inHg)"
    ELSE ""

\* lines 504-532
format_weather_string_with_stadium(wd, name) ==
    IF wd = NoneRecord THEN "Weather data unavailable"
    ELSE LET base_weather == format_weather_string(wd)
             factor == calculate_home_run_factor(wd, name)
         IN  IF factor # NoneRecord
             THEN base_weather \o ", " \o CarryClause(factor)
                  \o StationPressureSuffix(factor, name)
             ELSE base_weather

-----------------------------------------------------------------------------
(* The page session: streamlit_app.get_games_data for one game (one game_pk)
   and the st.cache_data wrappers it calls. A weather record is the dict
   get_weather_for_game or get_mock_weather returns, with the fields the
   formatters read and weather_time; NoneRecord is None. Instants count half
   hours from a midnight UTC. *)

\* strftime('%I:%M %p') of an instant
TimeOfDay(t) ==
    LET hour24 == (t \div UnitsPerHour) % 24
        hour12 == IF hour24 % 12 = 0 THEN 12 ELSE hour24 % 12
        minute == (t % UnitsPerHour) * (60 \div UnitsPerHour)
    IN  TwoDigits(hour12) \o ":" \o TwoDigits(minute)
        \o (IF hour24 < 12 THEN " AM" ELSE " PM")

\* weather_api.py lines 397-413
get_weather_time_description(gdt, status) ==
    IF status \in {"In Progress", "Live"} THEN "current conditions"
    ELSE IF status \in {"Final", "Game Over"} THEN "conditions during game"
    ELSE IF gdt.kind = "iso"
         THEN "forecast for game time (" \o TimeOfDay(gdt.t) \o ")"
         ELSE "forecast for game time"

\* weather_api.py lines 535-578
get_mock_weather(name, status) ==
    LET coors == name = "Coors Field"
        temp == IF coors THEN 87 ELSE 75
    IN  [ temperature |-> temp, feels_like |-> temp + 3,
          humidity |-> IF coors THEN 18 ELSE 65,
          description |-> "Partly Cloudy",
          wind_speed |-> IF coors THEN 7 ELSE 8,
          wind_direction_text |->
              get_wind_direction_for_stadium(Some(HalfDegrees(180)), name),
          precipitation_chance |-> 20,
          pressure |-> IF coors THEN Some(84500) ELSE Some(101325),
          uv_index |-> Some(6),
          dew_point |-> IF coors THEN Some(39) ELSE Some(58),
          weather_time |-> get_weather_time_description(NoDatetime, status) ]

\* what the weather service reports at the n-th of its states, as
\* get_weather_for_game returns it for the park and the status it was given
Reading(n, name, gdt, status) ==
    [ temperature |-> 60 + 10 * n, feels_like |-> 60 + 10 * n, humidity |-> 50,
      description |-> "Clear Sky", wind_speed |-> 5,
      wind_direction_text |->
          get_wind_direction_for_stadium(Some(HalfDegrees(90 * n)), name),
      precipitation_chance |-> 0, pressure |-> Some(101325), uv_index |-> None,
      dew_point |-> None,
      weather_time |-> get_weather_time_description(gdt, status) ]

\* the keys of the st.cache_data entries of the game: the wrapper and, for
\* get_weather_data_for_game, the status among its arguments
CacheKeys ==
    { <<"get_weather_forecast_for_scheduled_game">>,
      <<"get_weather_data_for_finished_game">>,
      <<"get_weather_data_for_game", "In Progress">>,
      <<"get_weather_data_for_game", "Live">> }

\* the arguments the wrapper of a key hands to get_weather_for_game
FetchArguments(key, gdt) ==
    CASE key[1] = "get_weather_forecast_for_scheduled_game"
            -> [gdt |-> gdt, status |-> "Scheduled"]            \* lines 322-327
      [] key[1] = "get_weather_data_for_finished_game"
            -> [gdt |-> NoDatetime, status |-> "Final"]         \* lines 266-271
      [] key[1] = "get_weather_data_for_game"
            -> [gdt |-> gdt, status |-> key[2]]                 \* lines 242-246

\* lines 229-254, 256-282, 312-338: the body of the wrapper of a key; answer is
\* what get_weather_for_game returns when the body calls it
WrapperBody(key, coords, api, name, answer) ==
    IF coords = None THEN NoneRecord
    ELSE IF api # None
    THEN IF answer = NoneRecord THEN NoneRecord
         ELSE CASE key[1] = "get_weather_forecast_for_scheduled_game"
                      -> [answer EXCEPT !.weather_time = "forecast for game time"]
                [] key[1] = "get_weather_data_for_finished_game"
                      -> [answer EXCEPT !.weather_time = "conditions at game end"]
                [] key[1] = "get_weather_data_for_game" -> answer
    ELSE get_mock_weather(name, FetchArguments(key, NoDatetime).status)

\* a call of a wrapper through st.cache_data: the result, whether the body
\* ran, and whether the body called get_weather_for_game
CachedCall(cache, key, coords, api, name, answer) ==
    IF cache[key] # None
    THEN [result |-> cache[key][1], ran |-> FALSE, fetched |-> FALSE]
    ELSE [result |-> WrapperBody(key, coords, api, name, answer), ran |-> TRUE,
          fetched |-> coords # None /\ api # None]

FinishedNeedsFetchAlways(final, coords) == coords # None

\* line 359: not weather and game['coordinates'], weather the stored entry
FinishedNeedsFetch(final, coords) == final = NoneRecord /\ coords # None

ScheduledNeedsFetchAlways(scheduled, coords) == coords # None

\* line 387: not weather and game['coordinates'], weather the stored entry
ScheduledNeedsFetch(scheduled, coords) == scheduled = NoneRecord /\ coords # None

\* streamlit_app.py lines 352-414 for the game: the wrapper called, if any, the
\* weather of the game dict and the two stores after it
GameWeather(status, scheduled, final, cache, coords, api, name, gdt, n) ==
    LET key == IF status \in {"Final", "Game Over"}
               THEN <<"get_weather_data_for_finished_game">>
               ELSE IF status \in {"In Progress", "Live"}
               THEN <<"get_weather_data_for_game", status>>
               ELSE <<"get_weather_forecast_for_scheduled_game">>
        arguments == FetchArguments(key, gdt)
        answer == IF n = 0 THEN NoneRecord
                  ELSE Reading(n, name, arguments.gdt, arguments.status)
        call == CachedCall(cache, key, coords, api, name, answer)
        called == [ calls |-> {key}, fetches |-> IF call.fetched THEN 1 ELSE 0,
                    cache |-> IF call.ran
                              THEN [cache EXCEPT ![key] = Some(call.result)]
                              ELSE cache ]
        uncalled == [ calls |-> {}, fetches |-> 0, cache |-> cache ]
    IN  IF status \in {"Final", "Game Over"}
        THEN IF FinishedNeedsFetch(final, coords)
             THEN LET weather == IF call.result # NoneRecord THEN call.result
                                 ELSE get_mock_weather(name, status)  \* line 373
                  IN  called @@ [ weather |-> weather, scheduled |-> scheduled,
                                  final |-> weather ]          \* lines 370, 404
             ELSE uncalled @@ [ weather |-> final, scheduled |-> scheduled,
                                final |-> final ]
        ELSE IF status \in {"In Progress", "Live"}
        THEN called @@ [ weather |-> call.result, scheduled |-> scheduled,
                         final |-> final ]                     \* lines 376-383
        ELSE IF ScheduledNeedsFetch(scheduled, coords)
             THEN called @@ [ weather |-> IF call.result # NoneRecord THEN call.result
                                          ELSE get_mock_weather(name, status),
                              scheduled |-> IF call.result # NoneRecord
                                            THEN call.result   \* line 397
                                            ELSE scheduled,
                              final |-> final ]
             ELSE uncalled @@ [ weather |-> scheduled, scheduled |-> scheduled,
                                final |-> final ]

\* lines 407-412
GameWeatherStr(weather, name) ==
    IF weather # NoneRecord THEN format_weather_string_with_stadium(weather, name)
    ELSE "Weather data unavailable"

-----------------------------------------------------------------------------
(* Inputs *)

\* detailedState values of the schedule feed
Statuses == {"Scheduled", "Delayed", "In Progress", "Live", "Final", "Game Over"}

\* the hourly timestamps: every hour from one hour after the clock's start
HourlyTimes == { UnitsPerHour * i : i \in 1..MaxHourly }

\* the i-th entry of an hourly series; entries differ in their contents
HourSample(t, i) ==
    [ dt |-> t, temp |-> 600 + 15 * i, humidity |-> 50 + i, wind_speed |-> 40 + 15 * i,
      wind_deg |-> 135 * i, pressure |-> Some(101300) ]

CurrentSample ==
    [ dt |-> 0, temp |-> 725, humidity |-> 40, wind_speed |-> 35,
      wind_deg |-> 0, pressure |-> None ]

\* the series of timestamps f, of any order and with repeats
SeriesOf(f) == [ i \in DOMAIN f |-> HourSample(f[i], i) ]

HourlySeries ==
    { SeriesOf(f) : f \in UNION { [1..n -> HourlyTimes] : n \in 0..MaxHourly } }

\* a payload without the 'hourly' key has no series
Payloads ==
    { [ current |-> c, has_hourly |-> TRUE, hourly |-> h ] :
        c \in {EmptyDict, CurrentSample}, h \in HourlySeries }
    \cup { [ current |-> c, has_hourly |-> FALSE, hourly |-> << >> ] :
        c \in {EmptyDict, CurrentSample} }

\* scheduled starts: now, just ahead, between and on hourly timestamps, and on
\* both sides of the 48-hour horizon
GameTimes == {0, 1, 3, 4, 48 * UnitsPerHour + 1, 48 * UnitsPerHour + 2}

GameDatetimes == {NoDatetime, MalformedDatetime} \cup { IsoDatetime(t) : t \in GameTimes }

SelectorStadiums == {NoStadium, "Oracle Park"}

\* every bearing of the circle, in half degrees
WindBearings == 0 .. (HalfDegrees(360) - 1)

ResolverStadiums ==
    {NoStadium, "Unknown Park", "Fenway Park", "Target Field", "Coors Field", "Oracle Park"}

\* shifts applied to bearing and orientation alike, in half degrees
Shifts == {0 - 1000, 0 - 45, 0, 333}

ResolverLabels ==
    { "out to center field", "out to right field", "out to right field foul territory",
      "in from right field", "in from center field", "in from left field",
      "out to left field foul territory", "out to left field" }

Temperatures == {60, 70, 71, 80, 95}
\* 105 is a humidity outside [0, 100], which nothing before the calculator
\* rejects (line 100 copies the payload's value)
Humidities == {20, 50, 65, 80, 105}
Pressures == {None, Some(84500), Some(101300), Some(101325), Some(103000)}
WindSpeeds == {0, 3, 4, 7, 8, 12}
WindTexts == ResolverLabels \cup {"from N", "Unknown"}

CalculatorStadiums ==
    {NoStadium, "Unknown Park", "Minute Maid Park", "Kauffman Stadium",
     "Chase Field", "Coors Field"}

ParsedRecords ==
    [ temperature : Temperatures, humidity : Humidities, pressure : Pressures,
      wind_speed : WindSpeeds, wind_direction_text : WindTexts ]

\* the records that differ from wd in the temperature, the humidity or the
\* pressure alone
Variations(wd) ==
    { [wd EXCEPT !.temperature = t] : t \in Temperatures \ {wd.temperature} }
    \cup { [wd EXCEPT !.humidity = h] : h \in Humidities \ {wd.humidity} }
    \cup { [wd EXCEPT !.pressure = p] : p \in Pressures \ {wd.pressure} }

\* feels_like as a difference from the temperature
FeelsLikeDifferences == {0 - 4, 0, 3, 4}

FormatterTemperatures == {70, 80}
Conditions == {"Clear Sky", "Light Rain"}
PrecipitationChances == {0, 20}
DewPoints == {None, Some(54), Some(55), Some(60), Some(65), Some(70)}
FormatterWindSpeeds == {0, 4, 5, 10, 15}
FormatterWindTexts == {"out to center field", "from N"}
FormatterPressures == {None, Some(100000), Some(101325), Some(103000)}
UvIndexes == {None, Some(5), Some(6), Some(8), Some(11)}

FormatterStadiums ==
    {NoStadium, "Unknown Park", "Kauffman Stadium", "Chase Field", "Coors Field"}

FormatterRecords ==
    { [ temperature |-> t, feels_like |-> t + d, description |-> c,
        precipitation_chance |-> r, humidity |-> 50, dew_point |-> dp,
        wind_speed |-> w, wind_direction_text |-> wt, pressure |-> p,
        uv_index |-> u ] :
        t \in FormatterTemperatures, d \in FeelsLikeDifferences, c \in Conditions,
        r \in PrecipitationChances, dp \in DewPoints, w \in FormatterWindSpeeds,
        wt \in FormatterWindTexts, p \in FormatterPressures, u \in UvIndexes }

\* a stadium's coordinates as the fetch receives them, or none
CoordinateInputs == {None, Some(<<"39.7559", "-104.9942">>)}
ApiKeys == {None, Some("key")}

FetchPayloads ==
    { [current |-> CurrentSample, has_hourly |-> TRUE, hourly |-> SeriesOf(<<2>>)],
      [current |-> EmptyDict, has_hourly |-> FALSE, hourly |-> << >>],
      MalformedPayload }

Bodies ==
    { [decodable |-> FALSE, error |-> e] : e \in JsonDecodeErrors }
    \cup { [decodable |-> TRUE, data |-> d] : d \in FetchPayloads }

StatusCodes == {200, 401, 404, 429, 500}

Responses ==
    { [kind |-> "raises", exception |-> e] :
        e \in {"requests.ConnectionError", "requests.Timeout"} }
    \cup { [kind |-> "response", status_code |-> c, body |-> b] :
             c \in StatusCodes, b \in Bodies }

-----------------------------------------------------------------------------
(* Evaluations of the selector and of the parser *)

IdleInputs ==
    /\ clock = 0
    /\ selected = EmptyDict
    /\ wind_label = ""
    /\ shifted_label = ""
    /\ shift = << >>
    /\ hr_factor = NoneRecord
    /\ varied = NoneRecord
    /\ hr_factor_varied = NoneRecord
    /\ weather_str = ""
    /\ selected_later = EmptyDict
    /\ fetched = NoneRecord
    /\ requests_made = 0
    /\ scheduled_weather_cache = NoneRecord
    /\ final_weather_cache = NoneRecord
    /\ cache_data = [k \in CacheKeys |-> None]
    /\ renders = << >>

\* no fetch in progress: no coordinates, no key, no response
IdleFetch ==
    /\ coordinates = None
    /\ api_key = None
    /\ response = [kind |-> "none"]

InitSelector ==
    /\ pc = "select"
    /\ data \in Payloads
    /\ game_datetime \in GameDatetimes
    /\ game_status \in Statuses
    /\ stadium_name \in SelectorStadiums
    /\ wind_deg = None
    /\ weather_data = NoneRecord
    /\ IdleInputs
    /\ IdleFetch

\* time passes before the call
Tick ==
    /\ pc = "select"
    /\ clock < MaxClock
    /\ clock' = clock + 1
    /\ UNCHANGED << weather_str, selected_later, fetch_vars, session_vars,
                    pc, data, game_datetime, game_status, stadium_name, wind_deg,
                    selected, wind_label, shifted_label, shift, weather_data,
                    hr_factor, varied, hr_factor_varied >>

\* _get_appropriate_weather_data(data, game_datetime, game_status)
Select ==
    /\ pc = "select"
    /\ selected' = get_appropriate_weather_data(data, game_datetime, game_status, clock)
    /\ pc' = "selected"
    /\ UNCHANGED << weather_str, selected_later, fetch_vars, session_vars,
                    clock, data, game_datetime, game_status, stadium_name, wind_deg,
                    wind_label, shifted_label, shift, weather_data, hr_factor,
                    varied, hr_factor_varied >>

\* _parse_onecall_data(data, game_datetime, stadium_name, game_status)
Parse ==
    /\ pc = "select"
    /\ selected' = get_appropriate_weather_data(data, game_datetime, game_status, clock)
    /\ weather_data' = parse_onecall_data(data, game_datetime, stadium_name,
                                          game_status, clock)
    /\ pc' = "parsed"
    /\ UNCHANGED << weather_str, selected_later, fetch_vars, session_vars,
                    clock, data, game_datetime, game_status, stadium_name, wind_deg,
                    wind_label, shifted_label, shift, hr_factor, varied,
                    hr_factor_varied >>

\* _get_appropriate_weather_data(data, game_datetime, game_status) called a
\* second time with the same arguments, after the clock has moved on by some
\* half hours
SelectLater ==
    /\ pc = "selected"
    /\ \E elapsed \in 0..MaxElapsed :
          /\ clock' = clock + elapsed
          /\ selected_later' = get_appropriate_weather_data(
                                   data, game_datetime, game_status, clock + elapsed)
    /\ pc' = "reselected"
    /\ UNCHANGED << weather_str, fetch_vars, session_vars,
                    data, game_datetime, game_status, stadium_name, wind_deg,
                    selected, wind_label, shifted_label, shift, weather_data,
                    hr_factor, varied, hr_factor_varied >>

NextSelector == Tick \/ Select \/ Parse \/ SelectLater

SpecSelector == InitSelector /\ [][NextSelector]_vars

-----------------------------------------------------------------------------
(* Evaluations of the resolver *)

InitResolver ==
    /\ pc = "resolve"
    /\ wind_deg \in {None} \cup { Some(w) : w \in WindBearings }
    /\ stadium_name \in ResolverStadiums
    /\ data = [current |-> EmptyDict, has_hourly |-> FALSE, hourly |-> << >>]
    /\ game_datetime = NoDatetime
    /\ game_status = "Scheduled"
    /\ weather_data = NoneRecord
    /\ IdleInputs
    /\ IdleFetch

\* _get_wind_direction_for_stadium(wind_deg, stadium_name)
Resolve ==
    /\ pc = "resolve"
    /\ wind_label' = get_wind_direction_for_stadium(wind_deg, stadium_name)
    /\ pc' = "resolved"
    /\ UNCHANGED << weather_str, selected_later, fetch_vars, session_vars,
                    clock, data, game_datetime, game_status, stadium_name, wind_deg,
                    selected, shifted_label, shift, weather_data, hr_factor,
                    varied, hr_factor_varied >>

\* lines 183-205 once more, the bearing moved by d and j turns and the
\* orientation by d and k turns
ResolveShifted ==
    /\ pc = "resolved"
    /\ wind_deg # None
    /\ stadium_name # NoStadium
    /\ \E d \in Shifts, j \in (0 - MaxTurns)..MaxTurns, k \in (0 - MaxTurns)..MaxTurns :
          /\ shift' = [d |-> d, j |-> j, k |-> k]
          /\ shifted_label' =
                relative_wind_label(wind_deg[1] + d + j * HalfDegrees(360),
                                    StadiumBearing(stadium_name) + d + k * HalfDegrees(360))
    /\ pc' = "shifted"
    /\ UNCHANGED << weather_str, selected_later, fetch_vars, session_vars,
                    clock, data, game_datetime, game_status, stadium_name, wind_deg,
                    selected, wind_label, weather_data, hr_factor, varied,
                    hr_factor_varied >>

NextResolver == Resolve \/ ResolveShifted

SpecResolver == InitResolver /\ [][NextResolver]_vars

-----------------------------------------------------------------------------
(* Evaluations of the calculator *)

InitCalculator ==
    /\ pc = "calculate"
    /\ weather_data \in ParsedRecords \cup {NoneRecord}
    /\ stadium_name \in CalculatorStadiums
    /\ data = [current |-> EmptyDict, has_hourly |-> FALSE, hourly |-> << >>]
    /\ game_datetime = NoDatetime
    /\ game_status = "Scheduled"
    /\ wind_deg = None
    /\ IdleInputs
    /\ IdleFetch

\* _calculate_home_run_factor(weather_data, stadium_name)
Calculate ==
    /\ pc = "calculate"
    /\ hr_factor' = calculate_home_run_factor(weather_data, stadium_name)
    /\ pc' = "calculated"
    /\ UNCHANGED << weather_str, selected_later, fetch_vars, session_vars,
                    clock, data, game_datetime, game_status, stadium_name, wind_deg,
                    selected, wind_label, shifted_label, shift, weather_data,
                    varied, hr_factor_varied >>

\* _calculate_home_run_factor once more, for the same park and a record that
\* differs in one field
CalculateVaried ==
    /\ pc = "calculated"
    /\ weather_data # NoneRecord
    /\ \E v \in Variations(weather_data) :
          /\ varied' = v
          /\ hr_factor_varied' = calculate_home_run_factor(v, stadium_name)
    /\ pc' = "varied"
    /\ UNCHANGED << weather_str, selected_later, fetch_vars, session_vars,
                    clock, data, game_datetime, game_status, stadium_name, wind_deg,
                    selected, wind_label, shifted_label, shift, weather_data,
                    hr_factor >>

NextCalculator == Calculate \/ CalculateVaried

SpecCalculator == InitCalculator /\ [][NextCalculator]_vars

-----------------------------------------------------------------------------
(* Evaluations of the formatters *)

InitFormatter ==
    /\ pc = "format"
    /\ weather_data \in FormatterRecords \cup {NoneRecord}
    /\ stadium_name \in FormatterStadiums
    /\ data = [current |-> EmptyDict, has_hourly |-> FALSE, hourly |-> << >>]
    /\ game_datetime = NoDatetime
    /\ game_status = "Scheduled"
    /\ wind_deg = None
    /\ IdleInputs
    /\ IdleFetch

\* format_weather_string(weather_data)
Format ==
    /\ pc = "format"
    /\ weather_str' = format_weather_string(weather_data)
    /\ pc' = "formatted"
    /\ UNCHANGED << selected_later, fetch_vars, session_vars,
                    clock, data, game_datetime, game_status, stadium_name, wind_deg,
                    selected, wind_label, shifted_label, shift, weather_data,
                    hr_factor, varied, hr_factor_varied >>

\* format_weather_string_with_stadium(weather_data, stadium_name); hr_factor
\* keeps the calculator's result the line was built from
FormatWithStadium ==
    /\ pc = "format"
    /\ hr_factor' = calculate_home_run_factor(weather_data, stadium_name)
    /\ weather_str' = format_weather_string_with_stadium(weather_data, stadium_name)
    /\ pc' = "summarised"
    /\ UNCHANGED << selected_later, fetch_vars, session_vars,
                    clock, data, game_datetime, game_status, stadium_name, wind_deg,
                    selected, wind_label, shifted_label, shift, weather_data,
                    varied, hr_factor_varied >>

NextFormatter == Format \/ FormatWithStadium

SpecFormatter == InitFormatter /\ [][NextFormatter]_vars

-----------------------------------------------------------------------------
(* Evaluations of the fetch *)

InitFetch ==
    /\ pc = "fetch"
    /\ coordinates \in CoordinateInputs
    /\ api_key \in ApiKeys
    /\ response \in Responses
    /\ game_datetime \in {NoDatetime, IsoDatetime(3)}
    /\ game_status \in {"Scheduled", "Final"}
    /\ stadium_name \in {NoStadium, "Coors Field"}
    /\ data = [current |-> EmptyDict, has_hourly |-> FALSE, hourly |-> << >>]
    /\ wind_deg = None
    /\ weather_data = NoneRecord
    /\ IdleInputs

\* get_weather_for_game(coordinates, game_datetime, stadium_name, game_status)
Fetch ==
    /\ pc = "fetch"
    /\ fetched' = get_weather_for_game(coordinates, api_key, response, game_datetime,
                                       stadium_name, game_status, clock)
    /\ requests_made' = requests_made + RequestsOf(coordinates, api_key)
    /\ pc' = "fetched"
    /\ UNCHANGED << weather_str, selected_later, session_vars, coordinates, api_key,
                    response, clock, data, game_datetime, game_status, stadium_name,
                    wind_deg, selected, wind_label, shifted_label, shift,
                    weather_data, hr_factor, varied, hr_factor_varied >>

NextFetch == Fetch

SpecFetch == InitFetch /\ [][NextFetch]_vars

-----------------------------------------------------------------------------
(* Evaluations of every component on inputs with something missing: no
   coordinates, no key, no weather record, no series, no scheduled start, no
   pressure, no bearing, a stadium name the tables do not list *)

EmptyPayload == [current |-> EmptyDict, has_hourly |-> FALSE, hourly |-> << >>]

MissingDataPayloads ==
    { [current |-> CurrentSample, has_hourly |-> TRUE, hourly |-> SeriesOf(<<2>>)],
      [current |-> CurrentSample, has_hourly |-> FALSE, hourly |-> << >>],
      EmptyPayload }

MissingDataStadiums ==
    {NoStadium, "Unknown Park", "Minute Maid Park", "Kauffman Stadium", "Coors Field"}

MissingDataParsedRecords ==
    [ temperature : {70, 80}, humidity : {50},
      pressure : {None, Some(101325), Some(103000)}, wind_speed : {0, 8},
      wind_direction_text : {"out to center field", "Unknown"} ]

MissingDataFormatterRecords ==
    { r \in FormatterRecords :
        /\ r.temperature = 70 /\ r.feels_like = 70 /\ r.description = "Clear Sky"
        /\ r.precipitation_chance = 0 /\ r.dew_point = None /\ r.uv_index = None }

MissingDataResponses ==
    { [kind |-> "raises", exception |-> "requests.Timeout"] }
    \cup { [kind |-> "response", status_code |-> 200,
            body |-> [decodable |-> TRUE, data |-> d]] : d \in MissingDataPayloads }

InitMissingData ==
    /\ pc \in {"select", "resolve", "calculate", "format", "fetch"}
    /\ data \in (IF pc = "select" THEN MissingDataPayloads ELSE {EmptyPayload})
    /\ game_datetime \in (IF pc \in {"select", "fetch"}
                          THEN {NoDatetime, IsoDatetime(3)} ELSE {NoDatetime})
    /\ game_status \in (IF pc \in {"select", "fetch"}
                        THEN {"Scheduled", "Final"} ELSE {"Scheduled"})
    /\ stadium_name \in MissingDataStadiums
    /\ wind_deg \in (IF pc = "resolve"
                     THEN {None} \cup { Some(w) : w \in {0, 45, 100, 360, 540} }
                     ELSE {None})
    /\ weather_data \in (CASE pc = "calculate"
                                -> MissingDataParsedRecords \cup {NoneRecord}
                           [] pc = "format"
                                -> MissingDataFormatterRecords \cup {NoneRecord}
                           [] OTHER -> {NoneRecord})
    /\ coordinates \in (IF pc = "fetch" THEN CoordinateInputs ELSE {None})
    /\ api_key \in (IF pc = "fetch" THEN ApiKeys ELSE {None})
    /\ response \in (IF pc = "fetch" THEN MissingDataResponses
                      ELSE {[kind |-> "none"]})
    /\ IdleInputs

NextMissingData ==
    NextSelector \/ NextResolver \/ NextCalculator \/ NextFormatter \/ NextFetch

SpecMissingData == InitMissingData /\ [][NextMissingData]_vars

-----------------------------------------------------------------------------
(* Properties of the selector (SpecSelector) *)

\* the selector has returned
Selected == pc \in {"selected", "parsed"}

\* the sample is one of the payload's hourly samples
IsHourly(sample) == \E i \in 1..Len(data.hourly) : data.hourly[i] = sample

\* the distance of the i-th hourly sample to the scheduled start
Distance(i) == Abs(data.hourly[i].dt - game_datetime.t)

FutureStart == game_datetime.kind = "iso" /\ game_datetime.t > clock

\* the gap to the scheduled start is at most 48 hours
WithinTwoDays == game_datetime.t - clock <= 48 * UnitsPerHour

\* C1: when the game status is In Progress, Live, Final or Game Over, the
\* selector returns the payload's current sample and never an hourly sample,
\* whatever the payload, the scheduled start and the hourly series are.
C1_CurrentForStartedGames ==
    (Selected /\ game_status \in {"In Progress", "Live", "Final", "Game Over"})
        => (selected = data.current /\ ~IsHourly(selected))

\* a finished game whose start lies ahead within the horizon, with a forecast
\* at hand, has been given the current sample
C1_Witness ==
    /\ pc = "selected"
    /\ game_status = "Final"
    /\ FutureStart /\ WithinTwoDays
    /\ data.has_hourly /\ Len(data.hourly) > 0
    /\ selected = CurrentSample

\* C2: for any other status, a scheduled start strictly in the future and at
\* most 48 hours away and a non-empty hourly series, the selector returns the
\* hourly sample nearest in time to the scheduled start, and of several
\* nearest ones the earliest in the series.
C2_NearestHourly ==
    (/\ Selected
     /\ game_status \notin {"In Progress", "Live", "Final", "Game Over"}
     /\ FutureStart /\ WithinTwoDays
     /\ data.has_hourly /\ Len(data.hourly) > 0)
        => \E i \in 1..Len(data.hourly) :
              /\ selected = data.hourly[i]
              /\ \A j \in 1..Len(data.hourly) : Distance(i) <= Distance(j)
              /\ \A j \in 1..(i - 1) : Distance(j) > Distance(i)

\* two samples are equally near, one on each side of the start, a farther one
\* precedes them, and the first of the two has been returned
C2_Witness ==
    /\ pc = "selected"
    /\ game_status = "Scheduled"
    /\ FutureStart /\ WithinTwoDays
    /\ data.has_hourly /\ Len(data.hourly) = 3
    /\ Distance(2) = Distance(3) /\ Distance(1) > Distance(2)
    /\ data.hourly[2].dt # data.hourly[3].dt
    /\ selected = data.hourly[2]

\* C3: for any other status the selector returns the current sample, never an
\* hourly one, when the scheduled start is absent, or not strictly later than
\* now, or more than 48 hours away, or the hourly series is missing or empty.
C3_FallbackToCurrent ==
    (/\ Selected
     /\ game_status \notin {"In Progress", "Live", "Final", "Game Over"}
     /\ \/ game_datetime.kind = "none"
        \/ (game_datetime.kind = "iso" /\ game_datetime.t <= clock)
        \/ (game_datetime.kind = "iso" /\ ~WithinTwoDays)
        \/ ~data.has_hourly
        \/ Len(data.hourly) = 0)
        => (selected = data.current /\ ~IsHourly(selected))

\* a start more than 48 hours ahead, with hourly data at hand, has been given
\* the current sample
C3_Witness ==
    /\ pc = "selected"
    /\ game_status = "Scheduled"
    /\ FutureStart /\ ~WithinTwoDays
    /\ data.has_hourly /\ Len(data.hourly) > 0
    /\ selected = CurrentSample

C23_SelectorIgnoresTheClock ==
    pc = "reselected" => selected_later = selected

-----------------------------------------------------------------------------
(* Properties of the resolver (SpecResolver) *)

\* the resolver has returned
Resolved == pc \in {"resolved", "shifted"}

\* the eight sectors as stated, in half degrees: [lo, hi) and the label; the
\* sector of center field is stated in its two parts
StatedSectors ==
    { [lo |-> 675, hi |-> 720, label |-> "out to center field"],
      [lo |-> 0,   hi |-> 45,  label |-> "out to center field"],
      [lo |-> 45,  hi |-> 135, label |-> "out to right field"],
      [lo |-> 135, hi |-> 225, label |-> "out to right field foul territory"],
      [lo |-> 225, hi |-> 315, label |-> "in from right field"],
      [lo |-> 315, hi |-> 405, label |-> "in from center field"],
      [lo |-> 405, hi |-> 495, label |-> "in from left field"],
      [lo |-> 495, hi |-> 585, label |-> "out to left field foul territory"],
      [lo |-> 585, hi |-> 675, label |-> "out to left field"] }

\* the stated sectors that hold the angle
SectorsHolding(relative) == { x \in StatedSectors : x.lo <= relative /\ relative < x.hi }

\* relative = (wind - orientation + 360) mod 360, for an orientation in degrees
StatedRelative(wind, orientation) == (wind - 2 * orientation + 720) % 720

KnownPark == stadium_name \in DOMAIN STADIUM_ORIENTATIONS

\* C5: for a park with a known orientation and every wind-from bearing, the
\* relative angle lies in exactly one of the stated half-open sectors and the
\* resolver returns that sector's label; the compass-label fallback is never
\* taken.
C5_EightSectors ==
    (Resolved /\ KnownPark /\ wind_deg # None)
        => LET relative == StatedRelative(wind_deg[1], STADIUM_ORIENTATIONS[stadium_name])
           IN  /\ Cardinality(SectorsHolding(relative)) = 1
               /\ \A x \in SectorsHolding(relative) : wind_label = x.label
               /\ wind_label \in ResolverLabels

\* a wind exactly 22.5 degrees right of the axis of a park that does not face
\* east has been resolved to right field
C5_Witness ==
    /\ pc = "resolved"
    /\ stadium_name = "Oracle Park"
    /\ wind_deg = Some(2 * 225 + 45)
    /\ wind_label = "out to right field"

\* C6: the label depends only on the difference of bearing and orientation
\* modulo 360: adding whole turns to either, or one shift to both, leaves it
\* unchanged, also when the shifted difference is negative.
C6_DifferenceOnly ==
    pc = "shifted" => shifted_label = wind_label

\* the bearing was moved two turns back and the orientation two turns on, so
\* that bearing - orientation + 360 is negative, and both were shifted
C6_Witness ==
    /\ pc = "shifted"
    /\ shift.j = 0 - 2 /\ shift.k = 2 /\ shift.d # 0
    /\ wind_deg[1] + shift.d + shift.j * 720
         - (StadiumBearing(stadium_name) + shift.d + shift.k * 720) + 720 < 0
    /\ shifted_label = "in from left field"
    /\ wind_label = "in from left field"

\* C7: when the wind-from bearing is absent the resolver returns "Unknown",
\* whether the stadium name is known, unknown or absent.
C7_UnknownWithoutBearing ==
    (Resolved /\ wind_deg = None) => wind_label = "Unknown"

\* a known park and no bearing: "Unknown" has been returned
C7_Witness ==
    /\ pc = "resolved"
    /\ wind_deg = None
    /\ stadium_name = "Fenway Park"
    /\ wind_label = "Unknown"

\* C8 as stated: whenever the orientation is absent, because the name is not
\* in the table or because no name is supplied, the resolver returns for
\* every present bearing the park-relative label of a park facing 90 degrees.
C8_DefaultEastAsStated ==
    (Resolved /\ ~KnownPark /\ wind_deg # None)
        => \A x \in SectorsHolding(StatedRelative(wind_deg[1], 90)) : wind_label = x.label

\* C8 as amended: for a supplied name that is not in the orientation table the
\* resolver returns the park-relative label of a park facing 90 degrees; when
\* no name is supplied it returns no park-relative label (a compass label).
C8_DefaultEastForUnlistedName ==
    (Resolved /\ ~KnownPark /\ wind_deg # None)
        => /\ stadium_name # NoStadium
              => \A x \in SectorsHolding(StatedRelative(wind_deg[1], 90)) :
                    wind_label = x.label
           /\ stadium_name = NoStadium => wind_label \notin ResolverLabels

\* a north wind at a park the table does not list has been resolved to left
\* field foul territory, as at a park facing east
C8_Witness ==
    /\ pc = "resolved"
    /\ stadium_name = "Unknown Park"
    /\ wind_deg = Some(0)
    /\ wind_label = "out to left field foul territory"

-----------------------------------------------------------------------------
(* Properties of the calculator (SpecCalculator) *)

\* the calculator has returned a result for a record
Calculated == pc \in {"calculated", "varied"} /\ weather_data # NoneRecord

GenericPark == stadium_name \notin {"Coors Field", "Chase Field"}

\* the pressure is absent or is the 29.92 inHg standard to two decimals
StandardPressure(pressure_hpa) ==
    \/ pressure_hpa = None
    \/ Round2(pressure_hpa[1] * 2953) = 299200000

\* C9: for a park other than Coors Field and Chase Field with elevation at
\* most 500 ft, a sample at standard conditions (70 F, 50% humidity, standard
\* or absent pressure, wind speed 0) yields carry_difference 0.0, the
\* description 'Average home run conditions' and every contribution 0.
C9_StandardConditions ==
    (/\ Calculated
     /\ GenericPark /\ Elevation(stadium_name) <= 500
     /\ weather_data.temperature = 70
     /\ weather_data.humidity = 50
     /\ StandardPressure(weather_data.pressure)
     /\ weather_data.wind_speed = 0)
        => /\ hr_factor.carry_difference = 0
           /\ hr_factor.description = "Average home run conditions"
           /\ hr_factor.temp_effect = 0
           /\ hr_factor.humidity_effect = 0
           /\ hr_factor.wind_effect = 0
           /\ hr_factor.humidor_effect = 0
           /\ hr_factor.altitude_baseline = 0

\* standard conditions with a reported pressure of 1013.25 hPa at a park 50 ft
\* above the sea have been given a carry difference of 0.0
C9_Witness ==
    /\ pc = "calculated"
    /\ weather_data # NoneRecord
    /\ stadium_name = "Minute Maid Park"
    /\ weather_data.temperature = 70
    /\ weather_data.humidity = 50
    /\ weather_data.pressure = Some(101325)
    /\ weather_data.wind_speed = 0
    /\ hr_factor.carry_difference = 0
    /\ hr_factor.station_pressure = 299200000

\* C10: for a park of the generic branch with humidity 50%, standard pressure
\* and calm wind, raising the temperature from 70 F to 80 F raises
\* carry_difference by exactly 2.8 ft, 2.5 from the temperature effect and 0.3
\* from the humidor effect, and changes no other contribution.
C10_TenDegreesWarmer ==
    (/\ pc = "varied"
     /\ GenericPark
     /\ weather_data.humidity = 50
     /\ StandardPressure(weather_data.pressure)
     /\ weather_data.wind_speed < 4
     /\ weather_data.temperature = 70
     /\ varied = [weather_data EXCEPT !.temperature = 80])
        => /\ hr_factor_varied.carry_difference
                = hr_factor.carry_difference + 28 * (Scale \div 10)
           /\ hr_factor_varied.temp_effect = hr_factor.temp_effect + 25 * (Scale \div 10)
           /\ hr_factor_varied.humidor_effect
                = hr_factor.humidor_effect + 3 * (Scale \div 10)
           /\ hr_factor_varied.humidity_effect = hr_factor.humidity_effect
           /\ hr_factor_varied.wind_effect = hr_factor.wind_effect
           /\ hr_factor_varied.altitude_baseline = hr_factor.altitude_baseline

\* the same record at 70 F and at 80 F, at a park the tables do not list: the
\* carry difference has gone from 0.0 to 2.8
C10_Witness ==
    /\ pc = "varied"
    /\ stadium_name = "Unknown Park"
    /\ weather_data.humidity = 50
    /\ weather_data.pressure = Some(101325)
    /\ weather_data.wind_speed = 3
    /\ weather_data.temperature = 70
    /\ varied = [weather_data EXCEPT !.temperature = 80]
    /\ hr_factor.carry_difference = 0
    /\ hr_factor_varied.carry_difference = 28 * (Scale \div 10)

\* the second record differs from the first in the named field alone
DiffersOnlyIn(field) ==
    /\ pc = "varied"
    /\ varied[field] # weather_data[field]
    /\ \A f \in DOMAIN weather_data \ {field} : varied[f] = weather_data[f]

\* C11: at every park (Coors Field, Chase Field and the generic branch), of
\* two samples that differ in the temperature alone the warmer one has a carry
\* difference at least as large, and of two samples that differ in the
\* humidity alone the more humid one has a carry difference at least as large.
C11_MonotoneInTemperatureAndHumidity ==
    /\ (DiffersOnlyIn("temperature") /\ varied.temperature > weather_data.temperature)
          => hr_factor_varied.carry_difference >= hr_factor.carry_difference
    /\ (DiffersOnlyIn("temperature") /\ varied.temperature < weather_data.temperature)
          => hr_factor_varied.carry_difference <= hr_factor.carry_difference
    /\ (DiffersOnlyIn("humidity") /\ varied.humidity > weather_data.humidity)
          => hr_factor_varied.carry_difference >= hr_factor.carry_difference
    /\ (DiffersOnlyIn("humidity") /\ varied.humidity < weather_data.humidity)
          => hr_factor_varied.carry_difference <= hr_factor.carry_difference

\* at Coors Field the same record at 50% and at 80% humidity: the carry
\* difference has gone from 22.0 to 25.0
C11_Witness ==
    /\ DiffersOnlyIn("humidity")
    /\ stadium_name = "Coors Field"
    /\ weather_data.temperature = 70
    /\ weather_data.wind_speed = 0
    /\ weather_data.humidity = 50
    /\ varied.humidity = 80
    /\ hr_factor.carry_difference = 22 * Scale
    /\ hr_factor_varied.carry_difference = 25 * Scale

\* C12: at Coors Field and at Chase Field the altitude baseline is 22 ft and
\* 4 ft, and two samples that differ in the reported pressure alone (absent
\* included) have the same carry difference and the same description.
C12_NoPressureTermAtNamedParks ==
    /\ (Calculated /\ stadium_name = "Coors Field")
          => hr_factor.altitude_baseline = 22 * Scale
    /\ (Calculated /\ stadium_name = "Chase Field")
          => hr_factor.altitude_baseline = 4 * Scale
    /\ (DiffersOnlyIn("pressure") /\ ~GenericPark)
          => /\ hr_factor_varied.carry_difference = hr_factor.carry_difference
             /\ hr_factor_varied.description = hr_factor.description

\* at Chase Field the same record without a pressure and with 845.00 hPa: both
\* have a carry difference of 6.8 at 80 F
C12_Witness ==
    /\ DiffersOnlyIn("pressure")
    /\ stadium_name = "Chase Field"
    /\ weather_data.temperature = 80
    /\ weather_data.humidity = 50
    /\ weather_data.wind_speed = 0
    /\ weather_data.pressure = None
    /\ varied.pressure = Some(84500)
    /\ hr_factor.carry_difference = 68 * (Scale \div 10)
    /\ hr_factor_varied.carry_difference = 68 * (Scale \div 10)

\* the station pressure the calculator derives for the park (lines 257-270),
\* before it is rounded into the result
DerivedStationPressure ==
    StationPressure(Elevation(stadium_name), weather_data.temperature,
                    weather_data.pressure)

\* C13: at every park of the generic branch, those above 500 ft such as
\* Kauffman Stadium included, the pressure term in the total is
\* (29.92 - station_pressure_inhg) * 5.0 for the station pressure the
\* calculator derives and reports for the park: the carry difference is the
\* rounded sum of the temperature, humidity, wind and humidor terms and that
\* pressure term, and the reported station pressure is the derived one.
C13_PressureTermFromStationPressure ==
    (Calculated /\ GenericPark)
        => /\ hr_factor.station_pressure = Round2(DerivedStationPressure)
           /\ hr_factor.carry_difference
                = Round1(TempEffect(weather_data.temperature)
                         + HumidityEffect(weather_data.humidity)
                         + (STANDARD_PRESSURE_SL - DerivedStationPressure) * 5
                         + calculate_wind_vector_effect(
                               weather_data.wind_speed,
                               weather_data.wind_direction_text)
                         + calculate_humidor_effect(
                               weather_data.temperature, weather_data.humidity))

\* C14: in every result carry_difference is the sum of the contribution
\* fields the result carries (altitude baseline, temperature, humidity, wind
\* and humidor effect; the result carries no pressure field), at a generic
\* park with a pressure off the standard too.
C14_CarryIsSumOfFields ==
    Calculated
        => hr_factor.carry_difference
             = hr_factor.altitude_baseline + hr_factor.temp_effect
               + hr_factor.humidity_effect + hr_factor.wind_effect
               + hr_factor.humidor_effect

\* the light-wind damping of a wind effect: times 0.7 below 8 mph
Damped(wind_speed, effect) ==
    IF wind_speed < 8 THEN (effect * 7) \div 10 ELSE effect

\* C15: the wind effect is 0 for every speed below 4 mph whatever the label;
\* from 4 mph to below 8 mph it is 0.7 times the speed times the directional
\* multiplier; from 8 mph on it is the speed times the directional multiplier.
C15_WindSpeedTiers ==
    Calculated
        => LET speed == weather_data.wind_speed
               directional == DirectionalEffect(speed, weather_data.wind_direction_text)
           IN  /\ speed < 4 => hr_factor.wind_effect = 0
               /\ (speed >= 4 /\ speed < 8)
                     => hr_factor.wind_effect = Round1((directional * 7) \div 10)
               /\ speed >= 8 => hr_factor.wind_effect = Round1(directional)

\* a 7 mph wind out to center field has been given 0.7 * 7 * 2.0 = 9.8 ft and
\* the result holds it
C15_Witness ==
    /\ Calculated
    /\ weather_data.wind_speed = 7
    /\ weather_data.wind_direction_text = "out to center field"
    /\ hr_factor.wind_effect = 98 * (Scale \div 10)

\* the multipliers stated for the six labels outside foul territory, in
\* hundredths
StatedMultiplier ==
    [ l \in { "out to center field", "in from center field", "out to left field",
              "out to right field", "in from left field", "in from right field" } |->
        CASE l = "out to center field" -> 200
          [] l = "in from center field" -> 0 - 180
          [] l \in {"out to left field", "out to right field"} -> 150
          [] l \in {"in from left field", "in from right field"} -> 0 - 130 ]

\* C16: for a speed of at least 4 mph the multiplier is 2.0 for 'out to center
\* field', -1.8 for 'in from center field', 1.5 for 'out to left field' and
\* 'out to right field', -1.3 for 'in from left field' and 'in from right
\* field'; every 'out' label has a positive and every 'in' label a negative
\* wind effect.
C16_DirectionalMultipliers ==
    (/\ Calculated
     /\ weather_data.wind_speed >= 4
     /\ weather_data.wind_direction_text \in DOMAIN StatedMultiplier)
        => LET speed == weather_data.wind_speed
               label == weather_data.wind_direction_text
           IN  /\ hr_factor.wind_effect
                     = Round1(Damped(speed,
                                     speed * StatedMultiplier[label] * (Scale \div 100)))
               /\ StatedMultiplier[label] > 0 <=> hr_factor.wind_effect > 0
               /\ StatedMultiplier[label] < 0 <=> hr_factor.wind_effect < 0

\* a 12 mph wind in from left field has been given 12 * -1.3 = -15.6 ft
C16_Witness ==
    /\ Calculated
    /\ weather_data.wind_speed = 12
    /\ weather_data.wind_direction_text = "in from left field"
    /\ hr_factor.wind_effect = (0 - 156) * (Scale \div 10)

\* C17: for a speed of at least 4 mph and a wind resolved to a foul-territory
\* sector ('out to right field foul territory', 'out to left field foul
\* territory') the multiplier is 0.25, times 0.7 below 8 mph, and not the 1.5
\* of a quartering tail wind.
C17_FoulTerritoryQuarter ==
    (/\ Calculated
     /\ weather_data.wind_speed >= 4
     /\ weather_data.wind_direction_text
            \in {"out to right field foul territory", "out to left field foul territory"})
        => hr_factor.wind_effect
             = Round1(Damped(weather_data.wind_speed,
                             weather_data.wind_speed * 25 * (Scale \div 100)))

\* the seven levels as stated, best first
StatedLevels ==
    << "Excellent home run conditions", "Good home run conditions",
       "Slightly favorable for home runs", "Average home run conditions",
       "Slightly unfavorable for home runs", "Poor home run conditions",
       "Very poor home run conditions" >>

\* the inclusive lower bounds stated for the first six levels, in feet
StatedLowerBounds == << 20, 10, 4, 0 - 4, 0 - 10, 0 - 20 >>

\* the total lies in level i: at or above its lower bound, if it has one, and
\* below the lower bound of the level above, if there is one
InLevel(i, total) ==
    /\ i <= 6 => total >= StatedLowerBounds[i] * Scale
    /\ i >= 2 => total < StatedLowerBounds[i - 1] * Scale

\* the place of a description in the ladder, 1 for the best
LevelOf(description) == CHOOSE i \in 1..7 : StatedLevels[i] = description

\* C18: the description is one of exactly seven levels, chosen by the ladder
\* with inclusive lower bounds (>= 20 Excellent, >= 10 Good, >= 4 Slightly
\* favorable, >= -4 Average, >= -10 Slightly unfavorable, >= -20 Poor, else
\* Very poor): every total lies in exactly one level, the description is that
\* level's, and the level does not fall when the total rises.
C18_SevenLevelLadder ==
    /\ Calculated
          => LET total == TotalCarryDifference(weather_data, stadium_name)
             IN  /\ Cardinality({i \in 1..7 : InLevel(i, total)}) = 1
                 /\ \A i \in 1..7 :
                       InLevel(i, total) => hr_factor.description = StatedLevels[i]
    /\ (pc = "varied"
         /\ TotalCarryDifference(varied, stadium_name)
               >= TotalCarryDifference(weather_data, stadium_name))
          => LevelOf(hr_factor_varied.description) <= LevelOf(hr_factor.description)

\* standard conditions at Chase Field: the total is exactly 4.0, the lower
\* bound of 'Slightly favorable for home runs', and that is the description
C18_Witness ==
    /\ Calculated
    /\ stadium_name = "Chase Field"
    /\ weather_data.temperature = 70
    /\ weather_data.humidity = 50
    /\ weather_data.wind_speed = 0
    /\ TotalCarryDifference(weather_data, stadium_name) = 4 * Scale
    /\ hr_factor.description = "Slightly favorable for home runs"

\* C24: when the sample's humidity lies outside [0, 100] the calculator ends in
\* an explicit invalid-input outcome and returns no carry estimate, and not a
\* result computed from the out-of-range value.
C24_HumidityOutOfRangeRejected ==
    (Calculated /\ weather_data.humidity \notin 0..100)
        => hr_factor = NoneRecord

\* the place in the ladder of a carry difference as returned, to one decimal
LevelOfReported(carry_difference) ==
    CHOOSE i \in 1..7 : InLevel(i, carry_difference)

\* C29: in every result the description is the one the seven-level ladder
\* gives for the returned one-decimal carry_difference; no result reports 4.0
\* with 'Average home run conditions' or 20.0 with 'Good home run conditions'.
C29_DescriptionOfReportedCarry ==
    Calculated
        => hr_factor.description
             = StatedLevels[LevelOfReported(hr_factor.carry_difference)]

-----------------------------------------------------------------------------
(* Properties of the formatters (SpecFormatter) *)

\* format_weather_string has returned the line of a record
Formatted == pc = "formatted" /\ weather_data # NoneRecord

\* format_weather_string_with_stadium has returned the line of a record
Summarised == pc = "summarised" /\ weather_data # NoneRecord

\* C19: for a sample with |temperature - feels_like| <= 3, precipitation
\* chance 0, no dew point, wind below 5 mph, no pressure and a UV index absent
\* or below 6, format_weather_string returns exactly the four clauses
\* '<temp>°F', '<condition>', '<humidity>% humidity' and
\* '<wind> mph winds <direction> (calm)', joined by ', ', and no other clause.
C19_FourClauses ==
    (/\ Formatted
     /\ Abs(weather_data.temperature - weather_data.feels_like) <= 3
     /\ weather_data.precipitation_chance = 0
     /\ weather_data.dew_point = None
     /\ weather_data.wind_speed < 5
     /\ weather_data.pressure = None
     /\ (weather_data.uv_index = None \/ weather_data.uv_index[1] < 6))
        => weather_str
             = ToString(weather_data.temperature) \o "°F, "
               \o weather_data.description \o ", "
               \o ToString(weather_data.humidity) \o "% humidity, "
               \o ToString(weather_data.wind_speed) \o " mph winds "
               \o weather_data.wind_direction_text \o " (calm)"

\* 70 F feeling like 73 F, a 4 mph wind out to center field and a UV index of
\* 5 have been formatted into four clauses
C19_Witness ==
    /\ Formatted
    /\ weather_data.temperature = 70
    /\ weather_data.feels_like = 73
    /\ weather_data.precipitation_chance = 0
    /\ weather_data.dew_point = None
    /\ weather_data.wind_speed = 4
    /\ weather_data.pressure = None
    /\ weather_data.uv_index = Some(5)
    /\ weather_str = "70°F, Clear Sky, 50% humidity, 4 mph winds out to center field (calm)"

\* the carry difference of a result as a signed number of feet
SignedFeet(carry_difference) ==
    (IF carry_difference > 0 THEN "+" ELSE "") \o FormatRounded1(carry_difference)

\* the station-pressure clause of a result
StationPressureClause ==
    " (station pressure: " \o FormatRounded2(hr_factor.station_pressure) \o " inHg)"

\* the station-pressure clause at Coors Field and Chase Field, nothing elsewhere
StationPressureClauseAtNamedParks ==
    IF stadium_name \in {"Coors Field", "Chase Field"} THEN StationPressureClause ELSE ""

\* C20 as stated: for every non-absent sample and every stadium the line of
\* format_weather_string_with_stadium is the base weather line followed by the
\* calculator's signed carry offset in feet together with its description, and
\* holds a station-pressure clause exactly when the stadium is Coors Field or
\* Chase Field.
C20_SignedOffsetAlways ==
    Summarised
        => weather_str
             = format_weather_string(weather_data) \o ", Home runs carry "
               \o SignedFeet(hr_factor.carry_difference) \o " ft ("
               \o Lower(hr_factor.description) \o ")"
               \o StationPressureClauseAtNamedParks

\* C20 as amended: the line is the base weather line followed, when the carry
\* offset is not 0.0, by the signed offset in feet together with the
\* description, and when it is 0.0 by 'Average home run conditions' without an
\* offset; it holds a station-pressure clause exactly when the stadium is
\* Coors Field or Chase Field.
C20_SignedOffsetUnlessZero ==
    Summarised
        => weather_str
             = format_weather_string(weather_data) \o ", "
               \o (IF hr_factor.carry_difference # 0
                   THEN "Home runs carry " \o SignedFeet(hr_factor.carry_difference)
                        \o " ft (" \o Lower(hr_factor.description) \o ")"
                   ELSE "Average home run conditions")
               \o StationPressureClauseAtNamedParks

\* a calm 70 F sample without a pressure has been summarised for Coors Field
\* with the offset, the description and the station pressure
C20_Witness ==
    /\ Summarised
    /\ stadium_name = "Coors Field"
    /\ hr_factor.carry_difference = 22 * Scale
    /\ weather_str = "70°F, Clear Sky, 50% humidity, 0 mph winds from N (calm), "
                     \o "Home runs carry +22.0 ft (excellent home run conditions)"
                     \o " (station pressure: 26.17 inHg)"

\* the wind clause of the line ends in ' (calm)'
LabelledCalm ==
    WindClause(weather_data.wind_speed, weather_data.wind_direction_text)
        = ToString(weather_data.wind_speed) \o " mph winds "
          \o weather_data.wind_direction_text \o " (calm)"

\* C30: for every sample and stadium, whenever the summary labels the wind
\* '(calm)', the wind effect in that summary's carry offset is 0.
C30_CalmMeansNoWindEffect ==
    (Summarised /\ LabelledCalm) => hr_factor.wind_effect = 0

-----------------------------------------------------------------------------
(* Properties of the fetch (SpecFetch) *)

\* the request was made and failed: requests.get raised, the status is an
\* error status, the body does not decode, or the payload does not parse
RetrievalFailure ==
    /\ coordinates # None /\ api_key # None
    /\ \/ response.kind = "raises"
       \/ response.kind = "response" /\ response.status_code >= 400
       \/ response.kind = "response" /\ ~response.body.decodable
       \/ /\ response.kind = "response" /\ response.body.decodable
          /\ response.body.data = MalformedPayload

\* C22: every retrieval failure in get_weather_for_game (HTTP 401, HTTP 429,
\* any other HTTP error status, a network or timeout error, an undecodable
\* body, a payload that fails to parse) ends with None returned to the caller
\* and never with an exception leaving the call.
C22_FailuresReturnNone ==
    (pc = "fetched" /\ RetrievalFailure) => fetched = NoneRecord

\* a 200 response whose body raised json.JSONDecodeError has been answered
\* with None, after one request
C22_Witness ==
    /\ pc = "fetched"
    /\ response = [kind |-> "response", status_code |-> 200,
                   body |-> [decodable |-> FALSE, error |-> "json.JSONDecodeError"]]
    /\ coordinates # None /\ api_key # None
    /\ requests_made = 1
    /\ fetched = NoneRecord

-----------------------------------------------------------------------------
(* One session of the page showing one game: renders of get_games_data, each
   with the status the game feed reports and the state of the weather
   service at that moment, and expiries of st.cache_data entries *)

\* the states of the weather service: 0, no usable answer; otherwise a reading
ServiceStates == 0 .. 2

SessionStadiums == {"Coors Field", "Unknown Park"}

InitSession ==
    /\ pc = "session"
    /\ coordinates \in CoordinateInputs
    /\ api_key \in ApiKeys
    /\ response = [kind |-> "none"]
    /\ game_datetime = IsoDatetime(39)
    /\ game_status = "Scheduled"
    /\ stadium_name \in SessionStadiums
    /\ data = [current |-> EmptyDict, has_hourly |-> FALSE, hourly |-> << >>]
    /\ wind_deg = None
    /\ weather_data = NoneRecord
    /\ IdleInputs

\* get_games_data(), lines 340-416, for the game
Render ==
    /\ pc = "session"
    /\ Len(renders) < MaxRenders
    /\ \E status \in Statuses, n \in ServiceStates :
          LET game == GameWeather(status, scheduled_weather_cache,
                                  final_weather_cache, cache_data, coordinates,
                                  api_key, stadium_name, game_datetime, n)
          IN  /\ game_status' = status
              /\ scheduled_weather_cache' = game.scheduled
              /\ final_weather_cache' = game.final
              /\ cache_data' = game.cache
              /\ weather_data' = game.weather
              /\ weather_str' = GameWeatherStr(game.weather, stadium_name)
              /\ renders' = Append(renders,
                     [ status |-> status, weather |-> game.weather,
                       weather_str |-> GameWeatherStr(game.weather, stadium_name),
                       calls |-> game.calls, fetches |-> game.fetches,
                       scheduled |-> game.scheduled, final |-> game.final ])
    /\ UNCHANGED << selected_later, fetch_vars, pc, clock, data, game_datetime,
                    stadium_name, wind_deg, selected, wind_label, shifted_label,
                    shift, hr_factor, varied, hr_factor_varied >>

\* the ttl of an st.cache_data entry runs out (ttl=600, ttl=3600)
Expire ==
    /\ pc = "session"
    /\ \E key \in CacheKeys :
          /\ cache_data[key] # None
          /\ cache_data' = [cache_data EXCEPT ![key] = None]
    /\ UNCHANGED << weather_str, selected_later, fetch_vars, scheduled_weather_cache,
                    final_weather_cache, renders, pc, clock, data, game_datetime,
                    game_status, stadium_name, wind_deg, selected, wind_label,
                    shifted_label, shift, weather_data, hr_factor, varied,
                    hr_factor_varied >>

NextSession == Render \/ Expire

SpecSession == InitSession /\ [][NextSession]_vars

-----------------------------------------------------------------------------
(* Properties of the components on missing data (SpecMissingData) *)

\* the stadium name is supplied and the orientation table does not list it
UnlistedOrientation == stadium_name # NoStadium /\ ~KnownPark

\* the elevation table does not list the stadium name
UnlistedElevation == stadium_name \notin DOMAIN stadium_elevations

\* C21: no error leaves the core for expected missing data. Without
\* coordinates the fetch returns None without a request; without a weather
\* record the calculator returns None and both formatters return 'Weather
\* data unavailable'; without a scheduled start the selector returns the
\* current sample; without a pressure the calculator still returns a result,
\* with a pressure term of 0 and, at a park of at most 500 ft, a station
\* pressure of 29.92; for a stadium name missing from the tables the resolver
\* uses the orientation 90 and the calculator the elevation 0.
C21_MissingDataDegrades ==
    /\ (pc = "fetched" /\ coordinates = None)
          => fetched = NoneRecord /\ requests_made = 0
    /\ (pc = "calculated" /\ weather_data = NoneRecord) => hr_factor = NoneRecord
    /\ (pc \in {"formatted", "summarised"} /\ weather_data = NoneRecord)
          => weather_str = "Weather data unavailable"
    /\ (pc = "selected" /\ game_datetime = NoDatetime) => selected = data.current
    /\ (Calculated /\ weather_data.pressure = None)
          => /\ hr_factor # NoneRecord
             /\ hr_factor.carry_difference
                  = Round1(AltitudeBaseline(stadium_name)
                           + TempEffect(weather_data.temperature)
                           + HumidityEffect(weather_data.humidity)
                           + calculate_wind_vector_effect(
                                 weather_data.wind_speed,
                                 weather_data.wind_direction_text)
                           + calculate_humidor_effect(
                                 weather_data.temperature, weather_data.humidity))
             /\ Elevation(stadium_name) <= 500
                   => hr_factor.station_pressure = STANDARD_PRESSURE_SL
    /\ (Resolved /\ UnlistedOrientation /\ wind_deg # None)
          => \A x \in SectorsHolding(StatedRelative(wind_deg[1], 90)) :
                wind_label = x.label
    /\ (Calculated /\ UnlistedElevation)
          => /\ hr_factor.altitude_baseline = 0
             /\ hr_factor.station_pressure
                  = Round2(StationPressure(0, weather_data.temperature,
                                           weather_data.pressure))

\* a record without a pressure has been given a result at a park no table
\* lists: 2.8 ft at 80 F, with the standard station pressure
C21_Witness ==
    /\ pc = "calculated"
    /\ weather_data # NoneRecord
    /\ stadium_name = "Unknown Park"
    /\ weather_data.pressure = None
    /\ weather_data.temperature = 80
    /\ weather_data.wind_speed = 0
    /\ hr_factor.carry_difference = 28 * (Scale \div 10)
    /\ hr_factor.station_pressure = STANDARD_PRESSURE_SL

-----------------------------------------------------------------------------
(* Properties of the page session (SpecSession) *)

InProgressStatuses == {"In Progress", "Live"}

FinishedStatuses == {"Final", "Game Over"}

ForecastKey == <<"get_weather_forecast_for_scheduled_game">>

FinishedKey == <<"get_weather_data_for_finished_game">>

\* the game has been a scheduled game in every render up to the j-th
ScheduledThrough(j) ==
    \A k \in 1 .. j : renders[k].status \notin InProgressStatuses \cup FinishedStatuses

\* C25: for a game whose status stays outside 'In Progress', 'Live', 'Final'
\* and 'Game Over', once a render has left a forecast in the scheduled store,
\* no later render calls the forecast fetch, and every later render shows
\* exactly the stored forecast.
C25_ForecastFetchedOnce ==
    \A i \in 1 .. Len(renders), j \in 1 .. Len(renders) :
        (i < j /\ ScheduledThrough(j) /\ renders[i].scheduled # NoneRecord)
            => /\ renders[j].calls = {}
               /\ renders[j].fetches = 0
               /\ renders[j].weather = renders[i].scheduled
               /\ renders[j].weather_str
                    = format_weather_string_with_stadium(renders[i].scheduled,
                                                         stadium_name)
               /\ renders[j].scheduled = renders[i].scheduled

\* the first render fetched a forecast from the service and stored it, the
\* st.cache_data entry of the forecast has since run out, and the game has
\* been rendered again, delayed, while the service reported something else
C25_Witness ==
    /\ Len(renders) = 2
    /\ renders[1].status = "Scheduled"
    /\ renders[1].fetches = 1
    /\ renders[1].scheduled = [Reading(1, stadium_name, NoDatetime, "Scheduled")
                                  EXCEPT !.weather_time = "forecast for game time"]
    /\ renders[2].status = "Delayed"
    /\ renders[2].weather = renders[1].scheduled
    /\ cache_data[ForecastKey] = None

\* C26: once the final store holds an entry for the game, every later render
\* in which the game is 'Final' or 'Game Over' leaves the entry unchanged,
\* fetches no weather, and shows that same weather.
C26_FinalWeatherKept ==
    \A i \in 1 .. Len(renders), j \in 1 .. Len(renders) :
        (i < j /\ renders[i].final # NoneRecord
               /\ renders[j].status \in FinishedStatuses)
            => /\ renders[j].final = renders[i].final
               /\ renders[j].calls = {}
               /\ renders[j].fetches = 0
               /\ renders[j].weather = renders[i].final
               /\ renders[j].weather_str
                    = format_weather_string_with_stadium(renders[i].final,
                                                         stadium_name)

\* the first render of a finished game fetched its weather and stored it, the
\* st.cache_data entry of that fetch has run out, and the game has been
\* rendered as 'Game Over' with the stored weather
C26_Witness ==
    /\ Len(renders) = 2
    /\ renders[1].status = "Final"
    /\ renders[1].fetches = 1
    /\ renders[1].final = [Reading(2, stadium_name, NoDatetime, "Final")
                              EXCEPT !.weather_time = "conditions at game end"]
    /\ renders[2].status = "Game Over"
    /\ renders[2].weather = renders[1].final
    /\ cache_data[FinishedKey] = None

\* the j-th render is the first in which the game is finished, and the
\* render before it showed the game in progress
JustFinished(j) ==
    /\ j > 1
    /\ renders[j].status \in FinishedStatuses
    /\ renders[j - 1].status \in InProgressStatuses
    /\ \A k \in 1 .. (j - 1) : renders[k].status \notin FinishedStatuses

\* C27: when a game rendered as 'In Progress' or 'Live' is first rendered as
\* 'Final' or 'Game Over', the weather stored and shown as its final weather
\* is the weather last shown while it was in progress, and no weather is
\* fetched at the transition.
C27_FinalWeatherIsLastLiveWeather ==
    \A j \in 1 .. Len(renders) :
        JustFinished(j)
            => /\ renders[j].weather = renders[j - 1].weather
               /\ renders[j].final = renders[j - 1].weather
               /\ renders[j].fetches = 0

\* a weather record is one get_mock_weather makes for the stadium
IsMock(weather) ==
    \E status \in Statuses : weather = get_mock_weather(stadium_name, status)

\* C28: with an API key configured, neither session store ever holds mock
\* weather.
C28_NoMockInStores ==
    api_key # None
        => ~IsMock(scheduled_weather_cache) /\ ~IsMock(final_weather_cache)

====
